---- MODULE Spec2Model ----
(***************************************************************************)
(* Geth-MCP-Proxy (src/mcpServer.js): the tool registry, the POST /mcp     *)
(* dispatcher (mcpHandler) and the upstream client (queryGeth), as a state *)
(* machine over a fixed set of HTTP connections.                           *)
(***************************************************************************)
EXTENDS Integers, Sequences, FiniteSets, TLC

(***************************************************************************)
(* JavaScript / JSON values.  Every value is a record tagged by t.         *)
(***************************************************************************)
Undefined == [t |-> "undefined"]
JNull == [t |-> "null"]
JNum(n) == [t |-> "num", v |-> n]
JStr(s) == [t |-> "str", v |-> s]
JBool(b) == [t |-> "bool", v |-> b]
JArr(s) == [t |-> "arr", v |-> s]
JObj(f) == [t |-> "obj", v |-> f]
EmptyObj == JObj(<<>>)

\* JavaScript truthiness of a value (used by !x and x || y).
Truthy(v) ==
  CASE v.t = "undefined" -> FALSE
    [] v.t = "null" -> FALSE
    [] v.t = "num" -> v.v # 0
    [] v.t = "str" -> v.v # ""
    [] v.t = "bool" -> v.v
    [] OTHER -> TRUE

\* typeof v === 'object' (null, arrays and objects).
TypeofObject(v) == v.t \in {"null", "arr", "obj"}

\* Property read v[k] on a value that is neither null nor undefined:
\* own keys of an object, undefined for everything else the model uses.
Get(v, k) == IF v.t = "obj" /\ k \in DOMAIN v.v THEN v.v[k] ELSE Undefined

\* String(v), also used by template literals.
JsString(v) ==
  CASE v.t = "undefined" -> "undefined"
    [] v.t = "null" -> "null"
    [] v.t = "num" -> ToString(v.v)
    [] v.t = "str" -> v.v
    [] v.t = "bool" -> IF v.v THEN "true" ELSE "false"
    [] v.t = "arr" -> IF v.v = <<>> THEN "" ELSE "[array]"
    [] OTHER -> "[object Object]"

\* JSON.stringify followed by the peer's JSON.parse: keys whose value is
\* undefined are dropped from objects, undefined array items become null.
RECURSIVE Wire(_)
Wire(v) ==
  CASE v.t = "obj" ->
         JObj([k \in {x \in DOMAIN v.v : v.v[x].t # "undefined"} |-> Wire(v.v[k])])
    [] v.t = "arr" ->
         JArr([i \in DOMAIN v.v |-> IF v.v[i].t = "undefined" THEN JNull ELSE Wire(v.v[i])])
    [] OTHER -> v

\* An object literal { k1: v1, ... } given as a sequence of <<key, value>>.
RECURSIVE ObjOf(_)
ObjOf(kvs) ==
  IF kvs = <<>> THEN <<>>
  ELSE (kvs[1][1] :> kvs[1][2]) @@ ObjOf(Tail(kvs))
Obj(kvs) == JObj(ObjOf(kvs))

(***************************************************************************)
(* zod: z.object(shape).parse(args)                                        *)
(***************************************************************************)
ZString == [ty |-> "string", mode |-> "required"]
ZNumber == [ty |-> "number", mode |-> "required"]
ZBoolean == [ty |-> "boolean", mode |-> "required"]
ZAny == [ty |-> "any", mode |-> "required"]
ZOptional(f) == [f EXCEPT !.mode = "optional"]
ZArrayAnyDefault == [ty |-> "array", mode |-> "default"]

\* One field of a z.object: z.any() accepts everything, undefined included;
\* .optional() and .default() accept undefined; otherwise the type must match.
ZodFieldOk(f, v) ==
  CASE f.ty = "any" -> TRUE
    [] v.t = "undefined" -> f.mode # "required"
    [] f.ty = "string" -> v.t = "str"
    [] f.ty = "number" -> v.t = "num"
    [] f.ty = "boolean" -> v.t = "bool"
    [] f.ty = "array" -> v.t = "arr"
    [] OTHER -> FALSE

\* z.object(shape).parse(args): throws a ZodError unless args is an object
\* whose declared fields all parse; undeclared keys are stripped, a missing
\* .default([]) field is filled in.
ZodParse(shape, args) ==
  IF args.t # "obj" \/ \E k \in DOMAIN shape : ~ZodFieldOk(shape[k], Get(args, k))
  THEN [ok |-> FALSE, value |-> Undefined]
  ELSE [ok |-> TRUE,
        value |-> JObj([k \in {x \in DOMAIN shape :
                                 x \in DOMAIN args.v \/ shape[x].mode = "default"} |->
                          IF k \in DOMAIN args.v THEN args.v[k] ELSE JArr(<<>>)])]

(***************************************************************************)
(* The tool catalog: the registerTool(...) calls made while the module     *)
(* loads, in source order.  zod is argument 2's inputSchema, json is       *)
(* argument 4 (the discovery schema), handler names the closure passed as  *)
(* argument 3 by the name it is registered under.                          *)
(***************************************************************************)
JsonSchema(props, req) ==
  [type |-> "object", properties |-> props, required |-> req, additionalProperties |-> FALSE]

ZEmpty == <<>>
ZBalance == ("address" :> ZString) @@ ("block" :> ZOptional(ZString))
ZEstimateGas ==
  ("to" :> ZOptional(ZString)) @@ ("from" :> ZOptional(ZString)) @@
  ("data" :> ZOptional(ZString)) @@ ("value" :> ZOptional(ZString))
ZRawTx == "rawTx" :> ZString
ZBlockByNumber == ("block" :> ZString) @@ ("full" :> ZOptional(ZBoolean))
ZHash == "hash" :> ZString
ZCall == ("to" :> ZString) @@ ("data" :> ZString) @@ ("block" :> ZOptional(ZString))

\* Tool whose alias call is registered with a validator lacking block.
Tool_aliasDrift(name, description, zod, json) ==
  [name |-> name, description |-> description,
   zod |-> IF name = "call" THEN [k \in DOMAIN zod \ {"block"} |-> zod[k]] ELSE zod,
   json |-> json, handler |-> name]

Tool(name, description, zod, json) ==
  [name |-> name, description |-> description, zod |-> zod, json |-> json, handler |-> name]

Catalog ==
  << Tool("getBlockNumber", "Retrieve the current block number (hex + decimal).",
          ZEmpty, JsonSchema({}, {})),
     Tool("eth_getBlockNumber", "Alias of getBlockNumber.",
          ZEmpty, JsonSchema({}, {})),
     Tool("getBalance", "Get balance of an address (hex + decimal).",
          ZBalance, JsonSchema({"address", "block"}, {"address"})),
     Tool("eth_getBalance", "Alias of getBalance.",
          ZBalance, JsonSchema({"address", "block"}, {"address"})),
     Tool("ethCallRaw", "Call any Ethereum JSON-RPC method with params array.",
          ("method" :> ZString) @@ ("params" :> ZArrayAnyDefault),
          JsonSchema({"method", "params"}, {"method"})),
     Tool("eth_isSyncing", "Check if the node is syncing.", ZEmpty, JsonSchema({}, {})),
     Tool("eth_chainId", "Get current chain ID (hex + decimal).", ZEmpty, JsonSchema({}, {})),
     Tool("eth_gasPrice", "Get current gas price (hex + wei decimal).", ZEmpty, JsonSchema({}, {})),
     Tool("eth_getBlockByNumber", "Fetch block by number/tag.",
          ZBlockByNumber, JsonSchema({"block", "full"}, {"block"})),
     Tool("getBlockByNumber", "Fetch block by number/tag (alias of eth_getBlockByNumber).",
          ZBlockByNumber, JsonSchema({"block", "full"}, {"block"})),
     Tool("eth_getTransactionByHash", "Fetch a transaction by hash.",
          ZHash, JsonSchema({"hash"}, {"hash"})),
     Tool("getTransactionByHash", "Fetch a transaction by hash (alias of eth_getTransactionByHash).",
          ZHash, JsonSchema({"hash"}, {"hash"})),
     Tool("eth_call", "Execute a call without a transaction.",
          ZCall, JsonSchema({"to", "data", "block"}, {"to", "data"})),
     Tool("call", "Execute a call without a transaction (alias of eth_call).",
          ZCall, JsonSchema({"to", "data", "block"}, {"to", "data"})),
     Tool("eth_estimateGas", "Estimate gas for a transaction.",
          ZEstimateGas, JsonSchema({"to", "from", "data", "value"}, {})),
     Tool("estimateGas", "Estimate gas for a transaction (alias of eth_estimateGas).",
          ZEstimateGas, JsonSchema({"to", "from", "data", "value"}, {})),
     Tool("eth_sendRawTransaction",
          "Broadcast a signed raw transaction (hex). WARNING: ensure the tx is trusted.",
          ZRawTx, JsonSchema({"rawTx"}, {"rawTx"})),
     Tool("sendRawTransaction",
          "Broadcast a signed raw transaction (alias of eth_sendRawTransaction).",
          ZRawTx, JsonSchema({"rawTx"}, {"rawTx"})),
     Tool("chainId", "Get current chain ID (alias of eth_chainId).", ZEmpty, JsonSchema({}, {})),
     Tool("gasPrice", "Get current gas price (alias of eth_gasPrice).", ZEmpty, JsonSchema({}, {})),
     Tool("isSyncing", "Check if the node is syncing (alias of eth_isSyncing).",
          ZEmpty, JsonSchema({}, {})),
     Tool("admin_exportChain", "Exports the current blockchain into a local file.",
          ("file" :> ZString) @@ ("first" :> ZOptional(ZNumber)) @@ ("last" :> ZOptional(ZNumber)),
          JsonSchema({"file", "first", "last"}, {"file"})),
     Tool("debug_getAccessibleState",
          "Returns the first number where the node has accessible state on disk.",
          ("from" :> ZAny) @@ ("to" :> ZAny), JsonSchema({"from", "to"}, {"from", "to"})),
     Tool("debug_getRawBlock", "Retrieves and returns the RLP encoded block by number.",
          "blockNrOrHash" :> ZAny, JsonSchema({"blockNrOrHash"}, {"blockNrOrHash"})) >>

(***************************************************************************)
(* The registry: registeredToolNames, registeredToolSchemas,               *)
(* registeredToolHandlers and the names held by the shared McpServer.      *)
(***************************************************************************)
EmptyRegistry ==
  [registeredToolNames |-> <<>>, registeredToolSchemas |-> <<>>,
   registeredToolHandlers |-> <<>>, sdkTools |-> {}, threw |-> FALSE]

\* String(name || '') of a string or missing name.
normalizeToolName(name) == JsString(IF Truthy(name) THEN name ELSE JStr(""))

\* obj[k] = v on a plain object: replaces the key or adds it.
Put(f, k, v) == [x \in DOMAIN f \cup {k} |-> IF x = k THEN v ELSE f[x]]

\* mcpServer.registerTool(safeName, schema, handler): the SDK's McpServer
\* throws "Tool <name> is already registered" for a name it already holds.
sdkRegisterTool(sdkTools, safeName) ==
  IF safeName \in sdkTools
  THEN [threw |-> TRUE, sdkTools |-> sdkTools]
  ELSE [threw |-> FALSE, sdkTools |-> sdkTools \cup {safeName}]

\* The three writes to the proxy's own registry come first; an exception of
\* the SDK's registerTool then leaves registerTool with them already made.
registerTool(reg, tool) ==
  LET safeName == normalizeToolName(JStr(tool.name))
      sdk == sdkRegisterTool(reg.sdkTools, safeName)
  IN
  [registeredToolNames |-> Append(reg.registeredToolNames, safeName),
   registeredToolSchemas |->
     Put(reg.registeredToolSchemas, safeName,
         [inputSchema |-> tool.json, description |-> tool.description]),
   registeredToolHandlers |->
     Put(reg.registeredToolHandlers, safeName,
         [handler |-> tool.handler,
          schema |-> [description |-> tool.description, inputSchema |-> tool.zod]]),
   sdkTools |-> sdk.sdkTools,
   threw |-> sdk.threw]

\* The registerTool calls of the module body, in order; an exception thrown
\* by one of them ends the module's evaluation.
RECURSIVE RegisterAll(_, _)
RegisterAll(reg, tools) ==
  IF tools = <<>> \/ reg.threw THEN reg
  ELSE RegisterAll(registerTool(reg, Head(tools)), Tail(tools))

\* The registry once the module has loaded.
StartupRegistry == RegisterAll(EmptyRegistry, Catalog)

\* Names every plain object answers to through Object.prototype.
ObjectPrototypeKeys ==
  {"constructor", "toString", "valueOf", "hasOwnProperty", "__proto__"}

\* registeredToolHandlers[safeName]: an own entry, an inherited member of
\* Object.prototype (truthy, without a schema property), or undefined.
LookupHandler(handlers, safeName) ==
  IF safeName \in DOMAIN handlers THEN [kind |-> "entry", entry |-> handlers[safeName]]
  ELSE IF safeName \in ObjectPrototypeKeys THEN [kind |-> "inherited"]
  ELSE [kind |-> "undefined"]

(***************************************************************************)
(* Result formatter                                                        *)
(***************************************************************************)
HexDigitValue ==
  ("0" :> 0) @@ ("1" :> 1) @@ ("2" :> 2) @@ ("3" :> 3) @@ ("4" :> 4) @@ ("5" :> 5) @@
  ("6" :> 6) @@ ("7" :> 7) @@ ("8" :> 8) @@ ("9" :> 9) @@
  ("a" :> 10) @@ ("b" :> 11) @@ ("c" :> 12) @@ ("d" :> 13) @@ ("e" :> 14) @@ ("f" :> 15) @@
  ("A" :> 10) @@ ("B" :> 11) @@ ("C" :> 12) @@ ("D" :> 13) @@ ("E" :> 14) @@ ("F" :> 15)

\* /^0x[0-9a-fA-F]+$/.test(s)
IsHexString(s) ==
  /\ Len(s) >= 3
  /\ SubSeq(s, 1, 2) = "0x"
  /\ \A i \in 3..Len(s) : SubSeq(s, i, i) \in DOMAIN HexDigitValue

\* Arbitrary-precision ds * m + carry on digits of the given base, least
\* significant digit first, without leading zeros (zero is <<>>).
RECURSIVE TimesPlus(_, _, _, _)
TimesPlus(ds, m, carry, base) ==
  IF ds = <<>>
  THEN IF carry = 0 THEN <<>>
       ELSE <<carry % base>> \o TimesPlus(<<>>, m, carry \div base, base)
  ELSE LET v == Head(ds) * m + carry
       IN <<v % base>> \o TimesPlus(Tail(ds), m, v \div base, base)

\* BigInt(s) of the hex digits s[3..n], as decimal digits.
RECURSIVE BigInt(_, _)
BigInt(s, n) ==
  IF n < 3 THEN <<>>
  ELSE TimesPlus(BigInt(s, n - 1), 16, HexDigitValue[SubSeq(s, n, n)], 10)

DecimalDigits == <<"0", "1", "2", "3", "4", "5", "6", "7", "8", "9">>

\* BigInt.prototype.toString(): base 10.
RECURSIVE DigitString(_)
DigitString(ds) ==
  IF ds = <<>> THEN "" ELSE DigitString(Tail(ds)) \o DecimalDigits[Head(ds) + 1]
BigIntToString(ds) == IF ds = <<>> THEN "0" ELSE DigitString(ds)

\* hexToDecimalMaybe that keeps the low 64 bits of the value.
hexToDecimalMaybe_uint64(hex) ==
  IF hex.t = "str" /\ IsHexString(hex.v)
  THEN LET low == IF Len(hex.v) > 18
                  THEN "0x" \o SubSeq(hex.v, Len(hex.v) - 15, Len(hex.v))
                  ELSE hex.v
       IN JStr(BigIntToString(BigInt(low, Len(low))))
  ELSE JNull

hexToDecimalMaybe(hex) ==
  IF hex.t = "str" /\ IsHexString(hex.v)
  THEN JStr(BigIntToString(BigInt(hex.v, Len(hex.v))))
  ELSE JNull

(***************************************************************************)
(* Tool handlers.  A handler either returns without calling the upstream   *)
(* (kind "return") or awaits queryGeth(method, params) (kind "query") and  *)
(* then builds its result from the upstream result (HandlerFinish).        *)
(***************************************************************************)
\* JSON.stringify(v) used as a text payload; JSON.stringify(undefined) is undefined.
Stringify(v) == IF v.t = "undefined" THEN Undefined ELSE [t |-> "text", v |-> Wire(v)]

\* TextResult that repeats its text block.
TextResult_twoBlocks(v) ==
  Obj(<< <<"content", JArr(<< Obj(<< <<"type", JStr("text")>>, <<"text", Stringify(v)>> >>),
                              Obj(<< <<"type", JStr("text")>>, <<"text", Stringify(v)>> >>) >>)>> >>)

TextResult(v) ==
  Obj(<< <<"content", JArr(<< Obj(<< <<"type", JStr("text")>>, <<"text", Stringify(v)>> >>) >>)>> >>)

\* OrDefault of a destructuring without defaults: { k }.
OrDefault_none(v, d) == v

\* A destructuring default: { k = d }.
OrDefault(v, d) == IF v.t = "undefined" THEN d ELSE v

Query(method, params) == [kind |-> "query", method |-> method, params |-> params, result |-> Undefined]
Return(result) == [kind |-> "return", method |-> Undefined, params |-> <<>>, result |-> result]

DisabledNotice == TextResult(Obj(<< <<"error", JStr("Disabled. Set ALLOW_SEND_RAW_TX=1 to enable.")>> >>))

\* sendRawTransactionStart without the ALLOW_SEND_RAW_TX test.
sendRawTransactionStart_ungated(a, allowSendRawTx) ==
  Query(JStr("eth_sendRawTransaction"), <<Get(a, "rawTx")>>)

\* if (!process.env.ALLOW_SEND_RAW_TX) return the notice; else queryGeth.
sendRawTransactionStart(a, allowSendRawTx) ==
  IF ~Truthy(allowSendRawTx) THEN Return(DisabledNotice)
  ELSE Query(JStr("eth_sendRawTransaction"), <<Get(a, "rawTx")>>)

exportChainParams(a) ==
  <<Get(a, "file")>>
    \o (IF Get(a, "first").t # "undefined" THEN <<Get(a, "first")>> ELSE <<>>)
    \o (IF Get(a, "last").t # "undefined" THEN <<Get(a, "last")>> ELSE <<>>)

\* The handler h applied to the parsed arguments a, up to its first await.
HandlerStart(h, a, allowSendRawTx) ==
  CASE h \in {"getBlockNumber", "eth_getBlockNumber"} -> Query(JStr("eth_blockNumber"), <<>>)
    [] h \in {"getBalance", "eth_getBalance"} ->
         Query(JStr("eth_getBalance"),
               <<Get(a, "address"), OrDefault(Get(a, "block"), JStr("latest"))>>)
    [] h = "ethCallRaw" -> Query(Get(a, "method"), Get(a, "params").v)
    [] h \in {"eth_isSyncing", "isSyncing"} -> Query(JStr("eth_syncing"), <<>>)
    [] h \in {"eth_chainId", "chainId"} -> Query(JStr("eth_chainId"), <<>>)
    [] h \in {"eth_gasPrice", "gasPrice"} -> Query(JStr("eth_gasPrice"), <<>>)
    [] h \in {"eth_getBlockByNumber", "getBlockByNumber"} ->
         Query(JStr("eth_getBlockByNumber"),
               <<Get(a, "block"), OrDefault(Get(a, "full"), JBool(FALSE))>>)
    [] h \in {"eth_getTransactionByHash", "getTransactionByHash"} ->
         Query(JStr("eth_getTransactionByHash"), <<Get(a, "hash")>>)
    [] h \in {"eth_call", "call"} ->
         Query(JStr("eth_call"),
               << Obj(<< <<"to", Get(a, "to")>>, <<"data", Get(a, "data")>> >>),
                  OrDefault(Get(a, "block"), JStr("latest")) >>)
    [] h \in {"eth_estimateGas", "estimateGas"} -> Query(JStr("eth_estimateGas"), <<a>>)
    [] h \in {"eth_sendRawTransaction", "sendRawTransaction"} ->
         sendRawTransactionStart(a, allowSendRawTx)
    [] h = "admin_exportChain" -> Query(JStr("admin_exportChain"), exportChainParams(a))
    [] h = "debug_getAccessibleState" ->
         Query(JStr("debug_getAccessibleState"), <<Get(a, "from"), Get(a, "to")>>)
    [] h = "debug_getRawBlock" ->
         Query(JStr("debug_getRawBlock"), <<Get(a, "blockNrOrHash")>>)

\* The handler h resumed with the upstream result r.
HandlerFinish(h, a, r) ==
  CASE h \in {"getBlockNumber", "eth_getBlockNumber"} ->
         TextResult(Obj(<< <<"blockNumberHex", r>>, <<"blockNumberDecimal", hexToDecimalMaybe(r)>> >>))
    [] h \in {"getBalance", "eth_getBalance"} ->
         TextResult(Obj(<< <<"address", Get(a, "address")>>, <<"balanceHex", r>>,
                           <<"balanceWei", hexToDecimalMaybe(r)>> >>))
    [] h = "ethCallRaw" ->
         TextResult(Obj(<< <<"method", Get(a, "method")>>, <<"params", Get(a, "params")>>,
                           <<"result", r>> >>))
    [] h \in {"eth_isSyncing", "isSyncing"} -> TextResult(Obj(<< <<"syncing", r>> >>))
    [] h \in {"eth_chainId", "chainId"} ->
         TextResult(Obj(<< <<"chainIdHex", r>>, <<"chainIdDecimal", hexToDecimalMaybe(r)>> >>))
    [] h \in {"eth_gasPrice", "gasPrice"} ->
         TextResult(Obj(<< <<"gasPriceHex", r>>, <<"gasPriceWei", hexToDecimalMaybe(r)>> >>))
    [] h \in {"eth_getBlockByNumber", "getBlockByNumber",
              "eth_getTransactionByHash", "getTransactionByHash"} -> TextResult(r)
    [] h \in {"eth_call", "call"} -> TextResult(Obj(<< <<"result", r>> >>))
    [] h \in {"eth_estimateGas", "estimateGas"} ->
         TextResult(Obj(<< <<"gasHex", r>>, <<"gasDecimal", hexToDecimalMaybe(r)>> >>))
    [] h \in {"eth_sendRawTransaction", "sendRawTransaction"} ->
         TextResult(Obj(<< <<"txHash", r>> >>))
    [] h \in {"admin_exportChain", "debug_getAccessibleState", "debug_getRawBlock"} ->
         TextResult(Obj(<< <<"result", r>> >>))

(***************************************************************************)
(* mcpHandler: the POST /mcp dispatcher, from the request's 'end' event to *)
(* its first await.  The outcome names where the request stands (pc), the  *)
(* steps it went through, the responses it sent, the closure variables     *)
(* kept across the await (frame) and the upstream call it started (query). *)
(***************************************************************************)
Reply(status, envelope) == [status |-> status, body |-> Wire(envelope)]

ErrorObject(code, message) == Obj(<< <<"code", JNum(code)>>, <<"message", JStr(message)>> >>)

ErrorEnvelope(code, message, id) ==
  Obj(<< <<"jsonrpc", JStr("2.0")>>, <<"error", ErrorObject(code, message)>>, <<"id", id>> >>)

ResultEnvelope(id, result) ==
  Obj(<< <<"jsonrpc", JStr("2.0")>>, <<"id", id>>, <<"result", result>> >>)

NoFrame == [id |-> Undefined, safeName |-> "", handler |-> "", parsed |-> Undefined]
NoQuery == [method |-> Undefined, params |-> Undefined]

Sent(steps, response) ==
  [pc |-> "ResponseSent", steps |-> steps, sent |-> <<response>>, frame |-> NoFrame,
   query |-> NoQuery, connect |-> "none"]

\* An exception thrown out of the async 'end' listener: nothing is sent.
Escaped(steps) ==
  [pc |-> "Escaped", steps |-> steps, sent |-> <<>>, frame |-> NoFrame,
   query |-> NoQuery, connect |-> "none"]

\* CatchMessage that drops the error's own text.
CatchMessage_generic(message) == "Tool execution error"

\* err?.message || 'Tool execution error'
CatchMessage(message) == IF message = "" THEN "Tool execution error" ELSE message

\* The catch block of tools/call.
ExecutionError(id, message) == Reply(500, ErrorEnvelope(-32000, CatchMessage(message), id))

\* A discovery schema as carried in a response.
SchemaValue(json) == [t |-> "schema", v |-> json]

\* Initialize whose capabilities carry the schemas without the descriptions.
Initialize_noDescriptions(id, schemas) ==
  Reply(200, ResultEnvelope(id,
    Obj(<< <<"protocolVersion", JStr("2025-06-18")>>,
           <<"serverInfo", Obj(<< <<"name", JStr("geth-mcp-proxy")>>, <<"version", JStr("1.1.0")>> >>)>>,
           <<"capabilities",
             Obj(<< <<"tools", JObj([n \in DOMAIN schemas |->
                                       Obj(<< <<"inputSchema", SchemaValue(schemas[n].inputSchema)>> >>)])>>,
                    <<"roots", Obj(<< <<"listChanged", JBool(FALSE)>> >>)>> >>)>> >>)))

Initialize(id, schemas) ==
  Reply(200, ResultEnvelope(id,
    Obj(<< <<"protocolVersion", JStr("2025-06-18")>>,
           <<"serverInfo", Obj(<< <<"name", JStr("geth-mcp-proxy")>>, <<"version", JStr("1.1.0")>> >>)>>,
           <<"capabilities",
             Obj(<< <<"tools", JObj([n \in DOMAIN schemas |->
                                       Obj(<< <<"inputSchema", SchemaValue(schemas[n].inputSchema)>>,
                                              <<"description", JStr(schemas[n].description)>> >>)])>>,
                    <<"roots", Obj(<< <<"listChanged", JBool(FALSE)>> >>)>> >>)>> >>)))

\* registeredToolSchemas[name]?.description and ?.inputSchema
ToolsListEntry(name, schemas) ==
  Obj(<< <<"name", JStr(name)>>,
         <<"description", IF name \in DOMAIN schemas THEN JStr(schemas[name].description) ELSE Undefined>>,
         <<"inputSchema", IF name \in DOMAIN schemas THEN SchemaValue(schemas[name].inputSchema) ELSE Undefined>> >>)

\* ToolsList that lists the names last-registered first.
ToolsList_reversed(id, names, schemas) ==
  Reply(200, ResultEnvelope(id,
    Obj(<< <<"tools", JArr([i \in DOMAIN names |->
                             ToolsListEntry(names[Len(names) + 1 - i], schemas)])>> >>)))

ToolsList(id, names, schemas) ==
  Reply(200, ResultEnvelope(id,
    Obj(<< <<"tools", JArr([i \in DOMAIN names |-> ToolsListEntry(names[i], schemas)])>> >>)))

\* ParamsMissing without the typeof test.
ParamsMissing_falsyOnly(params) == ~Truthy(params)

\* !params || typeof params !== 'object'
ParamsMissing(params) == ~Truthy(params) \/ ~TypeofObject(params)

\* !safeName || !registeredToolHandlers[safeName]
ToolUnknown(handlers, safeName) ==
  safeName = "" \/ LookupHandler(handlers, safeName).kind = "undefined"

\* queryGeth up to its await of fetch: one POST { jsonrpc, method, params, id }.
UpstreamRequest(method, params) == [method |-> Wire(method), params |-> Wire(JArr(params))]

\* The try block of tools/call: zod validation, then the handler.
Invoke(id, safeName, args, handlers, allowSendRawTx, steps) ==
  LET found == LookupHandler(handlers, safeName) IN
  IF found.kind # "entry"
  THEN \* .schema of an inherited member is undefined: reading .inputSchema throws
       Sent(steps, ExecutionError(id, "Cannot read properties of undefined (reading 'inputSchema')"))
  ELSE
    LET zodSchema == found.entry.schema.inputSchema
        parsed == ZodParse(zodSchema, args)
    IN
    IF ~parsed.ok
    THEN Sent(steps \o <<"validate">>, ExecutionError(id, "ZodError"))
    ELSE
      LET started == HandlerStart(found.entry.handler, parsed.value, allowSendRawTx) IN
      IF started.kind = "return"
      THEN Sent(steps \o <<"validate", "invoke">>, Reply(200, ResultEnvelope(id, started.result)))
      ELSE [pc |-> "AwaitFetch", steps |-> steps \o <<"validate", "invoke", "fetch">>,
            sent |-> <<>>,
            frame |-> [id |-> id, safeName |-> safeName, handler |-> found.entry.handler,
                      parsed |-> parsed.value],
            query |-> UpstreamRequest(started.method, started.params),
            connect |-> "none"]

ToolsCall(id, params, handlers, allowSendRawTx, steps) ==
  IF ParamsMissing(params)
  THEN Sent(steps \o <<"params">>, Reply(400, ErrorEnvelope(-32602, "Missing params", id)))
  ELSE
    LET name == Get(params, "name")
        args == OrDefault(Get(params, "arguments"), EmptyObj)
        safeName == normalizeToolName(name)
    IN
    IF ToolUnknown(handlers, safeName)
    THEN Sent(steps \o <<"params", "resolve">>,
              Reply(404, ErrorEnvelope(-32601, "Unknown tool: " \o JsString(name), id)))
    ELSE Invoke(id, safeName, args, handlers, allowSendRawTx, steps \o <<"params", "resolve">>)

\* The fallback: a StreamableHTTPServerTransport is built around the request
\* and handed to mcpServer.connect.  connect either attaches the transport
\* (nothing is written to res) or throws; it can only throw while the
\* shared server already holds a transport.
Fallback(id, connectThrows, steps) ==
  IF connectThrows
  THEN [Sent(steps \o <<"fallback">>,
             Reply(500, Obj(<< <<"jsonrpc", JStr("2.0")>>,
                               <<"error", Obj(<< <<"code", JNum(-32603)>>,
                                                 <<"message", JStr("MCP transport error")>>,
                                                 <<"data", JStr("Already connected to a transport")>> >>)>>,
                               <<"id", IF id.t \in {"undefined", "null"} THEN JNull ELSE id>> >>)))
        EXCEPT !.connect = "threw"]
  ELSE [pc |-> "NoResponse", steps |-> steps \o <<"fallback">>, sent |-> <<>>,
        frame |-> NoFrame, query |-> NoQuery, connect |-> "attached"]

\* ParseBody with the two error codes exchanged.
ParseBody_codesSwapped(body) ==
  CASE body.kind = "empty" ->
         [ok |-> FALSE, payload |-> Undefined,
          reply |-> Reply(400, ErrorEnvelope(-32700, "Parse error", JNull))]
    [] body.kind = "malformed" ->
         [ok |-> FALSE, payload |-> Undefined,
          reply |-> Reply(400, ErrorEnvelope(-32600, "Empty request body", JNull))]
    [] OTHER -> [ok |-> TRUE, payload |-> body.value, reply |-> Reply(200, EmptyObj)]

\* if (!body) ... JSON.parse(body)
ParseBody(body) ==
  CASE body.kind = "empty" ->
         [ok |-> FALSE, payload |-> Undefined,
          reply |-> Reply(400, ErrorEnvelope(-32600, "Empty request body", JNull))]
    [] body.kind = "malformed" ->
         [ok |-> FALSE, payload |-> Undefined,
          reply |-> Reply(400, ErrorEnvelope(-32700, "Parse error", JNull))]
    [] OTHER -> [ok |-> TRUE, payload |-> body.value, reply |-> Reply(200, EmptyObj)]

mcpHandler(body, names, schemas, handlers, allowSendRawTx, connectThrows) ==
  LET env == ParseBody(body) IN
  IF ~env.ok THEN Sent(<<"parse">>, env.reply)
  ELSE IF env.payload.t = "null"
  THEN \* const { id, method, params } = null throws a TypeError
       Escaped(<<"parse">>)
  ELSE
    LET id == Get(env.payload, "id")
        method == Get(env.payload, "method")
        params == Get(env.payload, "params")
        steps == <<"parse", "route">>
    IN
    CASE method = JStr("initialize") -> Sent(steps, Initialize(id, schemas))
      [] method = JStr("tools/list") -> Sent(steps, ToolsList(id, names, schemas))
      [] method = JStr("tools/call") -> ToolsCall(id, params, handlers, allowSendRawTx, steps)
      [] OTHER -> Fallback(id, connectThrows, steps)

\* The caller of queryGeth in GET /blockNumber (not a tool handler).
RestBlockNumber == "GET /blockNumber"

\* GET /mcp: res.json({ status, name, port, tools: registeredToolNames }).
Port == 3000
healthHandler(names) ==
  Sent(<<"health">>,
       Reply(200, Obj(<< <<"status", JStr("ok")>>, <<"name", JStr("geth-mcp-proxy")>>,
                         <<"port", JNum(Port)>>,
                         <<"tools", JArr([i \in DOMAIN names |-> JStr(names[i])])>> >>)))

\* GET /blockNumber up to its await of queryGeth('eth_blockNumber', []).
blockNumberHandler ==
  [pc |-> "AwaitFetch", steps |-> <<"fetch">>, sent |-> <<>>,
   frame |-> [NoFrame EXCEPT !.handler = RestBlockNumber],
   query |-> UpstreamRequest(JStr("eth_blockNumber"), <<>>), connect |-> "none"]

(***************************************************************************)
(* queryGeth after its fetch was issued, and the rest of tools/call.  A    *)
(* request r is the record kept per connection.                            *)
(***************************************************************************)
\* What the upstream did to a request, in order (kept for the properties).
Event(kind, detail) == [kind |-> kind, detail |-> detail]
Logged(r, kind, detail) == [r EXCEPT !.events = Append(@, Event(kind, detail))]

\* A request that has just run mcpHandler with outcome o; queryGeth arms its
\* 8000 ms timer and issues its single fetch when the outcome awaits one.
Started(body, o) ==
  [pc |-> o.pc, request |-> body, steps |-> o.steps, sent |-> o.sent, frame |-> o.frame,
   query |-> o.query, posts |-> IF o.pc = "AwaitFetch" THEN 1 ELSE 0,
   timer |-> o.pc = "AwaitFetch", events |-> <<>>]

\* The catch block around the awaited queryGeth: that of tools/call, or that
\* of GET /blockNumber.
CatchReply(frame, message) ==
  IF frame.handler = RestBlockNumber
  THEN Reply(500, Obj(<< <<"error", JStr(message)>> >>))
  ELSE ExecutionError(frame.id, message)

\* The response built from the upstream result.
SuccessReply(frame, result) ==
  IF frame.handler = RestBlockNumber
  THEN Reply(200, Obj(<< <<"blockNumberHex", result>>,
                         <<"blockNumberDecimal", hexToDecimalMaybe(result)>> >>))
  ELSE Reply(200, ResultEnvelope(frame.id, HandlerFinish(frame.handler, frame.parsed, result)))

\* Fail that issues the fetch once more before giving up.
Fail_retrying(r, message) ==
  IF r.posts < 2 /\ r.query.method.t # "undefined"
  THEN [r EXCEPT !.pc = "AwaitFetch", !.posts = @ + 1, !.timer = TRUE]
  ELSE [r EXCEPT !.pc = "ResponseSent", !.sent = Append(@, CatchReply(r.frame, message))]

\* queryGeth throws: the awaiting caller rejects and its catch block answers.
Fail(r, message) ==
  [r EXCEPT !.pc = "ResponseSent", !.sent = Append(@, CatchReply(r.frame, message))]

\* fetch rejected with error e: an AbortError becomes the timeout error,
\* anything else is rethrown as it is.
FetchRejected(r, e) ==
  IF e.name = "AbortError" THEN Fail(r, "Upstream request timed out")
  ELSE Fail(r, e.message)

\* fetch resolved with response headers res: clearTimeout, then res.ok.
FetchResolved(r, res) ==
  IF ~res.ok
  THEN Fail([r EXCEPT !.timer = FALSE],
            "Upstream HTTP " \o ToString(res.status) \o " " \o res.statusText)
  ELSE [r EXCEPT !.timer = FALSE, !.pc = "AwaitBody", !.steps = Append(@, "json")]

\* res.json() settled with data; then data.error, data.result and the rest
\* of the handler and of the try block.
BodyRead(r, data) ==
  CASE data.kind = "invalid" -> Fail(r, "Unexpected token < in JSON at position 0")
    [] data.value.t = "null" -> Fail(r, "Cannot read properties of null (reading 'error')")
    [] Truthy(Get(data.value, "error")) ->
         Fail(r, "Geth error: " \o JsString(Get(Get(data.value, "error"), "message")))
    [] OTHER ->
         [r EXCEPT !.pc = "ResponseSent",
                   !.sent = Append(@, SuccessReply(r.frame, Get(data.value, "result")))]

\* The 8000 ms timer fires: controller.abort() rejects a pending fetch with
\* an AbortError and has no effect once the fetch has settled.
TimerFired(r) ==
  IF r.pc = "AwaitFetch"
  THEN FetchRejected([r EXCEPT !.timer = FALSE], [name |-> "AbortError", message |-> "This operation was aborted"])
  ELSE [r EXCEPT !.timer = FALSE]

IdleRequest ==
  [pc |-> "Idle", request |-> [kind |-> "none", value |-> Undefined], steps |-> <<>>,
   sent |-> <<>>, frame |-> NoFrame, query |-> NoQuery, posts |-> 0, timer |-> FALSE,
   events |-> <<>>]

(***************************************************************************)
(* Inputs: request bodies, and what the upstream node can answer.          *)
(***************************************************************************)
NumConn == 2
Conn == 1..NumConn

Body(kind, value) == [kind |-> kind, value |-> value]
Envelope(id, method, params) ==
  Obj(<< <<"jsonrpc", JStr("2.0")>>, <<"id", id>>, <<"method", method>>, <<"params", params>> >>)
\* A request body is what the client serialised.
JsonBody(v) == Body("json", Wire(v))

ToolNames == {Catalog[i].name : i \in DOMAIN Catalog}

CallNames ==
  {JStr(n) : n \in ToolNames} \cup {JStr("nope"), JStr("constructor"), JStr("__proto__"), Undefined}

\* Argument values tried with every name.
CommonArguments == { JNull, EmptyObj }

ArgAddress == Obj(<< <<"address", JStr("0xabc")>> >>)
ArgAddressBlock == Obj(<< <<"address", JStr("0xabc")>>, <<"block", JStr("0x1")>> >>)
ArgAddressNumber == Obj(<< <<"address", JNum(5)>> >>)
ArgAddressExtra == Obj(<< <<"address", JStr("0xabc")>>, <<"tag", JStr("latest")>> >>)
ArgRawTx == Obj(<< <<"rawTx", JStr("0xf86b")>> >>)
ArgRawSend ==
  Obj(<< <<"method", JStr("eth_sendRawTransaction")>>, <<"params", JArr(<<JStr("0xf86b")>>)>> >>)
ArgRawChainId == Obj(<< <<"method", JStr("eth_chainId")>> >>)
ArgTx == Obj(<< <<"to", JStr("0xabc")>>, <<"gas", JStr("0x5208")>> >>)
ArgFile == Obj(<< <<"file", JStr("chain.rlp")>> >>)
ArgFileLast == Obj(<< <<"file", JStr("chain.rlp")>>, <<"last", JNum(9)>> >>)
ArgFileRange == Obj(<< <<"file", JStr("chain.rlp")>>, <<"first", JNum(1)>>, <<"last", JNum(9)>> >>)
ArgBlock == Obj(<< <<"blockNrOrHash", JStr("0x1")>> >>)
ArgFromTo == Obj(<< <<"from", JNum(1)>>, <<"to", JNum(2)>> >>)
ArgBlockTag == Obj(<< <<"block", JStr("0x1")>> >>)
ArgBlockFull == Obj(<< <<"block", JStr("0x1")>>, <<"full", JBool(TRUE)>> >>)
ArgHash == Obj(<< <<"hash", JStr("0xbeef")>> >>)
ArgCall == Obj(<< <<"to", JStr("0xabc")>>, <<"data", JStr("0x70a0")>> >>)
ArgCallBlock ==
  Obj(<< <<"to", JStr("0xabc")>>, <<"data", JStr("0x70a0")>>, <<"block", JStr("0x1")>> >>)
ArgCallNoData == Obj(<< <<"to", JStr("0xabc")>> >>)

\* The <<name, arguments>> pairs of the tools/call requests.
Calls ==
  (CallNames \X CommonArguments)
    \cup ({JStr("getBlockNumber"), JStr("getBalance"), JStr("debug_getRawBlock"),
           JStr("nope"), Undefined} \X {Undefined})
    \cup ({JStr("getBalance"), JStr("eth_getBalance")}
            \X {ArgAddress, ArgAddressBlock, ArgAddressNumber, ArgAddressExtra})
    \cup ({JStr("ethCallRaw")} \X {ArgRawSend, ArgRawChainId})
    \cup ({JStr("eth_estimateGas"), JStr("estimateGas")} \X {ArgTx})
    \cup ({JStr("eth_sendRawTransaction"), JStr("sendRawTransaction"),
           JStr("nope"), JStr("constructor")} \X {ArgRawTx})
    \cup ({JStr("admin_exportChain")} \X {ArgFile, ArgFileLast, ArgFileRange})
    \cup ({JStr("debug_getRawBlock")} \X {ArgBlock})
    \cup ({JStr("eth_getBlockByNumber"), JStr("getBlockByNumber")} \X {ArgBlockTag, ArgBlockFull})
    \cup ({JStr("eth_getTransactionByHash"), JStr("getTransactionByHash")} \X {ArgHash})
    \cup ({JStr("eth_call"), JStr("call")} \X {ArgCall, ArgCallBlock, ArgCallNoData})
    \cup ({JStr("debug_getAccessibleState")} \X {ArgFromTo})

CallParams ==
  { Undefined, JNull, JNum(0), JNum(5), JStr("getBlockNumber"), JBool(TRUE), JArr(<<>>) }
    \cup { Obj(<< <<"name", call[1]>>, <<"arguments", call[2]>> >>) : call \in Calls }

OtherMethods ==
  { JStr("initialize"), JStr("tools/list"), JStr("bogus"), JStr("notifications/initialized"),
    JStr("Tools/Call"), Undefined }

RequestId == JNum(7)

Bodies ==
  { Body("empty", Undefined), Body("malformed", Undefined),
    JsonBody(JNull), JsonBody(JNum(5)), JsonBody(JArr(<<>>)), JsonBody(JStr("tools/list")) }
    \cup { JsonBody(Envelope(id, m, Undefined)) : id \in {RequestId, Undefined, JNull}, m \in OtherMethods }
    \cup { JsonBody(Envelope(RequestId, m, p)) :
             m \in {JStr("initialize"), JStr("tools/list")},
             p \in {JNum(5), Obj(<< <<"protocolVersion", JStr("2024-11-05")>> >>)} }
    \cup { JsonBody(Envelope(RequestId, JStr("tools/call"), p)) : p \in CallParams }
    \cup { JsonBody(Envelope(Undefined, JStr("tools/call"),
                             Obj(<< <<"name", n>>, <<"arguments", EmptyObj>> >>))) :
             n \in {JStr("getBlockNumber"), JStr("nope")} }

\* What the other connections carry while connection 1 ranges over Bodies.
BackgroundBodies ==
  { JsonBody(Envelope(JNum(8), JStr("bogus"), Undefined)),
    JsonBody(Envelope(JNum(8), JStr("tools/call"),
                      Obj(<< <<"name", JStr("getBlockNumber")>>, <<"arguments", EmptyObj>> >>))) }

BodiesOf(c) == IF c = 1 THEN Bodies ELSE BackgroundBodies

\* The connection the GET routes are requested on.
RestConn == {1}

\* Response headers of the upstream node.
UpstreamHeaders ==
  { [ok |-> TRUE, status |-> 200, statusText |-> "OK"],
    [ok |-> FALSE, status |-> 503, statusText |-> "Service Unavailable"] }

\* Errors fetch can reject with on its own (the abort is the timer's).
FetchErrors == { [name |-> "TypeError", message |-> "fetch failed"] }

\* Response bodies of the upstream node.
UpstreamBodies ==
  { Body("invalid", Undefined),
    JsonBody(JNull),
    JsonBody(Obj(<< <<"jsonrpc", JStr("2.0")>>, <<"id", JNum(1)>>, <<"result", JStr("0x10")>> >>)),
    JsonBody(Obj(<< <<"jsonrpc", JStr("2.0")>>, <<"id", JNum(1)>>, <<"result", JNull>> >>)),
    JsonBody(Obj(<< <<"jsonrpc", JStr("2.0")>>, <<"id", JNum(1)>>,
                    <<"error", Obj(<< <<"code", JNum(-32000)>>, <<"message", JStr("nonce too low")>> >>)>> >>)) }

\* What the upstream node can answer eth_blockNumber with: hex quantities up
\* to 128 bits, with leading zeros and either letter case, and values that
\* are no hex quantity.
HexDigitChoice == {"0", "1", "9", "a", "f", "F"}
ShortHex == {"0x" \o a \o b \o c : a, b, c \in HexDigitChoice} \cup {"0x0", "0x10"}
LongHex ==
  { "0x7fffffff", "0x80000000", "0xffffffff", "0x100000000",
    "0x1fffffffffffff", "0x20000000000001",
    "0xffffffffffffffff", "0x10000000000000000", "0x00010000000000000000",
    "0xDE0B6B3A7640000", "0x0de0b6b3a7640000",
    "0xffffffffffffffffffffffffffffffff" }
NotHex ==
  { JStr(""), JStr("0x"), JStr("0"), JStr("10"), JStr("ff"), JStr("x10"), JStr("0X10"),
    JStr("0xg1"), JStr("0x1g"), JStr("0x 1"), JStr(" 0x1"), JStr("0x1 "), JStr("-0x1"),
    JStr("0x-1"), JStr("0x1.0"), JStr("0x0x1"), JStr("latest"),
    JNum(0), JNum(16), JBool(TRUE), JBool(FALSE), JNull, Undefined,
    JArr(<<>>), JArr(<<JStr("0x10")>>), EmptyObj, Obj(<< <<"hex", JStr("0x10")>> >>) }
HexResults == {JStr(h) : h \in ShortHex \cup LongHex} \cup NotHex
HexBodies ==
  { JsonBody(Obj(<< <<"jsonrpc", JStr("2.0")>>, <<"id", JNum(1)>>, <<"result", h>> >>)) :
      h \in HexResults }
BlockNumberCall ==
  JsonBody(Envelope(RequestId, JStr("tools/call"),
                    Obj(<< <<"name", JStr("getBlockNumber")>>, <<"arguments", EmptyObj>> >>)))

\* The registerTool calls a module body is made of: three calls of the
\* catalog under their own names, and the definition of getBalance given
\* under the name getBlockNumber (a second definition of that name).
MaxRegistrations == 3
ToolNamed(name) == CHOOSE tool \in {Catalog[i] : i \in DOMAIN Catalog} : tool.name = name
Redefined == [ToolNamed("getBalance") EXCEPT !.name = "getBlockNumber",
                                             !.description = "Second definition."]
RegTools ==
  { ToolNamed("getBlockNumber"), ToolNamed("eth_getBlockNumber"), ToolNamed("ethCallRaw"),
    Redefined }

\* The requests sent to a server whose module body is drawn from RegTools.
RegBodies ==
  { JsonBody(Envelope(RequestId, JStr("initialize"), Undefined)),
    JsonBody(Envelope(RequestId, JStr("tools/list"), Undefined)),
    JsonBody(Envelope(RequestId, JStr("bogus"), Undefined)) }
    \cup { JsonBody(Envelope(RequestId, JStr("tools/call"),
                             Obj(<< <<"name", JStr(n)>>, <<"arguments", a>> >>))) :
             n \in {"getBlockNumber", "eth_getBlockNumber"}, a \in {EmptyObj, ArgAddress} }

\* What the upstream does to the call of connection c: everything on
\* connection 1; on the others it stays silent or sends headers 200 and
\* then a result or an error.
UpstreamHeadersOf(c) == IF c = 1 THEN UpstreamHeaders ELSE {res \in UpstreamHeaders : res.ok}
FetchErrorsOf(c) == IF c = 1 THEN FetchErrors ELSE {}
UpstreamBodiesOf(c) ==
  IF c = 1 THEN UpstreamBodies
  ELSE {data \in UpstreamBodies : data.kind = "json" /\ data.value.t = "obj"
                                  /\ Get(data.value, "result").t # "null"}

\* Values process.env.ALLOW_SEND_RAW_TX can have.
AllowSendRawTxValues == { Undefined, JStr("0"), JStr("1") }

(***************************************************************************)
(* State                                                                   *)
(***************************************************************************)
VARIABLES
  registeredToolNames,     \* array of names, in registration order
  registeredToolSchemas,   \* name -> { inputSchema, description }
  registeredToolHandlers,  \* name -> { handler, schema }
  sdkTools,                \* names registered with the shared McpServer
  sdkConnected,            \* the shared McpServer holds a transport
  allowSendRawTx,          \* process.env.ALLOW_SEND_RAW_TX
  alive,                   \* the process is running
  conns,                   \* per connection: the request it carries
  registrations,           \* the registerTool calls made so far, in order
  listening,               \* app.listen has been called
  closing,                 \* shutdown() has called server.close()
  exitTimer,               \* the forced-exit timer of shutdown() is pending
  exitCode                 \* the code shutdown() passed to process.exit

registry == <<registeredToolNames, registeredToolSchemas, registeredToolHandlers, sdkTools>>
startup == <<registrations, listening>>
lifecycle == <<closing, exitTimer, exitCode>>
vars == <<registeredToolNames, registeredToolSchemas, registeredToolHandlers, sdkTools,
          sdkConnected, allowSendRawTx, alive, conns, registrations, listening,
          closing, exitTimer, exitCode>>

\* exitCode while process.exit has not been called.
NotExited == -1

\* After the module has loaded and app.listen has been called.
Init ==
  /\ registeredToolNames = StartupRegistry.registeredToolNames
  /\ registeredToolSchemas = StartupRegistry.registeredToolSchemas
  /\ registeredToolHandlers = StartupRegistry.registeredToolHandlers
  /\ sdkTools = StartupRegistry.sdkTools
  /\ sdkConnected = FALSE
  /\ allowSendRawTx \in AllowSendRawTxValues
  /\ alive = TRUE
  /\ conns = [c \in Conn |-> IdleRequest]
  /\ registrations = Catalog
  /\ listening = TRUE
  /\ closing = FALSE
  /\ exitTimer = FALSE
  /\ exitCode = NotExited

(***************************************************************************)
(* Actions                                                                 *)
(***************************************************************************)
\* POST /mcp: the body has been buffered and the 'end' listener runs up to
\* its first await.  An exception escaping the async listener is an
\* unhandled rejection: it ends the process or is only reported, depending
\* on the runtime's unhandled-rejections mode.
Receive(c, body, connectThrows, fatal) ==
  /\ alive
  /\ listening
  /\ ~closing
  /\ conns[c].pc = "Idle"
  /\ connectThrows => sdkConnected
  /\ LET o == mcpHandler(body, registeredToolNames, registeredToolSchemas,
                         registeredToolHandlers, allowSendRawTx, connectThrows)
     IN /\ connectThrows => o.connect = "threw"
        /\ fatal => o.pc = "Escaped"
        /\ conns' = [conns EXCEPT ![c] = Started(body, o)]
        /\ sdkConnected' = (sdkConnected \/ o.connect = "attached")
        /\ alive' = ~fatal
  /\ UNCHANGED <<registry, startup, lifecycle, allowSendRawTx>>

\* The upstream's response headers arrive.
FetchResolves(c, res) ==
  /\ alive
  /\ conns[c].pc = "AwaitFetch"
  /\ conns' = [conns EXCEPT ![c] = Logged(FetchResolved(@, res), "headers", res)]
  /\ UNCHANGED <<registry, startup, lifecycle, sdkConnected, allowSendRawTx, alive>>

\* The fetch fails on its own (connection refused, reset, ...).
FetchRejects(c, e) ==
  /\ alive
  /\ conns[c].pc = "AwaitFetch"
  /\ conns' = [conns EXCEPT ![c] = Logged(FetchRejected(@, e), "rejected", e)]
  /\ UNCHANGED <<registry, startup, lifecycle, sdkConnected, allowSendRawTx, alive>>

\* BodyArrives that hands the body to the first request waiting for one.
BodyArrives_crossed(c, data) ==
  /\ alive
  /\ conns[c].pc = "AwaitBody"
  /\ LET d == CHOOSE x \in Conn :
                /\ conns[x].pc = "AwaitBody"
                /\ \A y \in Conn : conns[y].pc = "AwaitBody" => x <= y
     IN conns' = [conns EXCEPT ![d] = BodyRead(@, data)]
  /\ UNCHANGED <<registry, startup, lifecycle, sdkConnected, allowSendRawTx, alive>>

\* The upstream's response body has been read.
BodyArrives(c, data) ==
  /\ alive
  /\ conns[c].pc = "AwaitBody"
  /\ conns' = [conns EXCEPT ![c] = Logged(BodyRead(@, data), "body", data)]
  /\ UNCHANGED <<registry, startup, lifecycle, sdkConnected, allowSendRawTx, alive>>

\* setTimeout(() => controller.abort(), 8000) fires.
TimerFires(c) ==
  /\ alive
  /\ conns[c].timer
  /\ conns' = [conns EXCEPT ![c] = Logged(TimerFired(@), "timer", conns[c].pc)]
  /\ UNCHANGED <<registry, startup, lifecycle, sdkConnected, allowSendRawTx, alive>>

\* The client's connection ends (after the response, or because the client
\* gave up waiting); a transport attached by the fallback is closed by the
\* request's 'close' listener, which detaches it from the shared server.
Close(c) ==
  /\ alive
  /\ conns[c].pc \in {"ResponseSent", "NoResponse", "Escaped"}
  /\ ~conns[c].timer
  /\ conns' = [conns EXCEPT ![c] = IdleRequest]
  /\ sdkConnected' = IF conns[c].pc = "NoResponse" THEN FALSE ELSE sdkConnected
  /\ UNCHANGED <<registry, startup, lifecycle, allowSendRawTx, alive>>

\* GET /mcp (health and discovery).
Health(c) ==
  /\ alive
  /\ listening
  /\ ~closing
  /\ conns[c].pc = "Idle"
  /\ conns' = [conns EXCEPT ![c] = Started(Body("GET /mcp", Undefined),
                                           healthHandler(registeredToolNames))]
  /\ UNCHANGED <<registry, startup, lifecycle, sdkConnected, allowSendRawTx, alive>>

\* GET /blockNumber: queryGeth is started outside any tool.
BlockNumber(c) ==
  /\ alive
  /\ listening
  /\ ~closing
  /\ conns[c].pc = "Idle"
  /\ conns' = [conns EXCEPT ![c] = Started(Body("GET /blockNumber", Undefined),
                                           blockNumberHandler)]
  /\ UNCHANGED <<registry, startup, lifecycle, sdkConnected, allowSendRawTx, alive>>

\* CanRegister with a registerTool call that is reached from a request.
CanRegister_lazy(isListening) == TRUE

\* Where registerTool is called from: the statements of the module body,
\* all of which precede app.listen.  No handler calls it.
CanRegister(isListening) == ~isListening

\* One registerTool call of the module body.  An exception thrown at the
\* top level of the module ends the process before app.listen is reached.
Register(tool) ==
  /\ alive
  /\ CanRegister(listening)
  /\ Len(registrations) < MaxRegistrations
  /\ LET reg == registerTool([registeredToolNames |-> registeredToolNames,
                              registeredToolSchemas |-> registeredToolSchemas,
                              registeredToolHandlers |-> registeredToolHandlers,
                              sdkTools |-> sdkTools, threw |-> FALSE], tool)
     IN /\ registeredToolNames' = reg.registeredToolNames
        /\ registeredToolSchemas' = reg.registeredToolSchemas
        /\ registeredToolHandlers' = reg.registeredToolHandlers
        /\ sdkTools' = reg.sdkTools
        /\ alive' = ~reg.threw
  /\ registrations' = Append(registrations, tool)
  /\ UNCHANGED <<listening, lifecycle, sdkConnected, allowSendRawTx, conns>>

\* const server = app.listen(port, ...), the last statement of the module.
Listen ==
  /\ alive
  /\ ~listening
  /\ listening' = TRUE
  /\ UNCHANGED <<registry, registrations, lifecycle, sdkConnected, allowSendRawTx, alive, conns>>

Next ==
  \/ \E c \in Conn : \E body \in BodiesOf(c) : \E connectThrows, fatal \in BOOLEAN :
       Receive(c, body, connectThrows, fatal)
  \/ \E c \in Conn : \E res \in UpstreamHeadersOf(c) : FetchResolves(c, res)
  \/ \E c \in Conn : \E e \in FetchErrorsOf(c) : FetchRejects(c, e)
  \/ \E c \in Conn : \E data \in UpstreamBodiesOf(c) : BodyArrives(c, data)
  \/ \E c \in Conn : TimerFires(c)
  \/ \E c \in RestConn : Health(c)
  \/ \E c \in RestConn : BlockNumber(c)
  \/ \E c \in Conn : Close(c)

Spec == Init /\ [][Next]_vars

\* The server answering one request at a time: every request of Next, on
\* the GET connection.
SeqNext ==
  \/ \E c \in RestConn : \E body \in Bodies : \E connectThrows, fatal \in BOOLEAN :
       Receive(c, body, connectThrows, fatal)
  \/ \E c \in RestConn : \E res \in UpstreamHeaders : FetchResolves(c, res)
  \/ \E c \in RestConn : \E e \in FetchErrors : FetchRejects(c, e)
  \/ \E c \in RestConn : \E data \in UpstreamBodies : BodyArrives(c, data)
  \/ \E c \in RestConn : TimerFires(c)
  \/ \E c \in RestConn : Health(c)
  \/ \E c \in RestConn : BlockNumber(c)
  \/ \E c \in RestConn : Close(c)

SeqSpec == Init /\ [][SeqNext]_vars

\* The two users of hexToDecimalMaybe that receive the upstream's block
\* number, getBlockNumber and GET /blockNumber, with the upstream answering
\* any of HexBodies.
HexNext ==
  \/ \E c \in RestConn : Receive(c, BlockNumberCall, FALSE, FALSE)
  \/ \E c \in RestConn : BlockNumber(c)
  \/ \E c \in RestConn : \E res \in {h \in UpstreamHeaders : h.ok} : FetchResolves(c, res)
  \/ \E c \in RestConn : \E data \in HexBodies : BodyArrives(c, data)
  \/ \E c \in RestConn : Close(c)

HexSpec == Init /\ [][HexNext]_vars

\* The process from the start of the module body: registerTool calls drawn
\* from RegTools, app.listen, then requests on the GET connection.
RegInit ==
  /\ registeredToolNames = EmptyRegistry.registeredToolNames
  /\ registeredToolSchemas = EmptyRegistry.registeredToolSchemas
  /\ registeredToolHandlers = EmptyRegistry.registeredToolHandlers
  /\ sdkTools = EmptyRegistry.sdkTools
  /\ sdkConnected = FALSE
  /\ allowSendRawTx \in AllowSendRawTxValues
  /\ alive = TRUE
  /\ conns = [c \in Conn |-> IdleRequest]
  /\ registrations = <<>>
  /\ listening = FALSE
  /\ closing = FALSE
  /\ exitTimer = FALSE
  /\ exitCode = NotExited

RegNext ==
  \/ \E tool \in RegTools : Register(tool)
  \/ Listen
  \/ \E c \in RestConn : \E body \in RegBodies : \E connectThrows, fatal \in BOOLEAN :
       Receive(c, body, connectThrows, fatal)
  \/ \E c \in RestConn : \E res \in UpstreamHeaders : FetchResolves(c, res)
  \/ \E c \in RestConn : \E e \in FetchErrors : FetchRejects(c, e)
  \/ \E c \in RestConn : \E data \in UpstreamBodies : BodyArrives(c, data)
  \/ \E c \in RestConn : TimerFires(c)
  \/ \E c \in RestConn : Health(c)
  \/ \E c \in RestConn : BlockNumber(c)
  \/ \E c \in RestConn : Close(c)

RegSpec == RegInit /\ [][RegNext]_vars

\* SIGINT or SIGTERM: shutdown() calls server.close(), after which no new
\* connection is accepted, and arms the forced-exit timer.
Signals == {"SIGINT", "SIGTERM"}
Signal(sig) ==
  /\ alive
  /\ listening
  /\ closing' = TRUE
  /\ exitTimer' = TRUE
  /\ UNCHANGED <<registry, startup, sdkConnected, allowSendRawTx, alive, conns, exitCode>>

\* The callback of server.close: every connection has ended; process.exit(0).
ServerClosed ==
  /\ alive
  /\ closing
  /\ \A c \in Conn : conns[c].pc = "Idle"
  /\ alive' = FALSE
  /\ exitCode' = 0
  /\ UNCHANGED <<registry, startup, sdkConnected, allowSendRawTx, conns, closing, exitTimer>>

\* ForcedExit whose timer callback does not end the process.
ForcedExit_disarmed ==
  /\ alive
  /\ exitTimer
  /\ exitTimer' = FALSE
  /\ UNCHANGED <<registry, startup, sdkConnected, allowSendRawTx, alive, conns, closing, exitCode>>

\* The forced-exit timer fires while the process still runs: process.exit(1).
ForcedExit ==
  /\ alive
  /\ exitTimer
  /\ alive' = FALSE
  /\ exitCode' = 1
  /\ exitTimer' = FALSE
  /\ UNCHANGED <<registry, startup, sdkConnected, allowSendRawTx, conns, closing>>

\* The server of SeqNext receiving signals.
ShutdownNext ==
  \/ \E c \in RestConn : \E body \in Bodies : \E connectThrows, fatal \in BOOLEAN :
       Receive(c, body, connectThrows, fatal)
  \/ \E c \in RestConn : \E res \in UpstreamHeaders : FetchResolves(c, res)
  \/ \E c \in RestConn : \E e \in FetchErrors : FetchRejects(c, e)
  \/ \E c \in RestConn : \E data \in UpstreamBodies : BodyArrives(c, data)
  \/ \E c \in RestConn : TimerFires(c)
  \/ \E c \in RestConn : Health(c)
  \/ \E c \in RestConn : BlockNumber(c)
  \/ \E c \in RestConn : Close(c)
  \/ \E sig \in Signals : Signal(sig)
  \/ ServerClosed
  \/ ForcedExit

\* The callbacks shutdown() schedules run: the close callback once the
\* server has closed, the timer callback while the process still runs (an
\* open server keeps the event loop alive, so unref() does not cancel it).
\* Nothing obliges the clients or the upstream node to act.
ShutdownSpec == Init /\ [][ShutdownNext]_vars /\ WF_vars(ServerClosed) /\ WF_vars(ForcedExit)

\* The timer of a pending queryGeth is a scheduled callback: it fires.
\* Nothing obliges the clients or the upstream node to act.
FairSpec == Spec /\ \A c \in Conn : WF_vars(TimerFires(c))

(***************************************************************************)
(* Reading a request and its response                                      *)
(***************************************************************************)
InSeq(x, s) == \E i \in DOMAIN s : s[i] = x
\* a request of POST /mcp
IsPost(r) == r.request.kind \in {"empty", "malformed", "json"}
Payload(r) == r.request.value
HasPayload(r) == r.pc # "Idle" /\ r.request.kind = "json" /\ Payload(r).t # "null"
MethodOf(r) == Get(Payload(r), "method")
ParamsOf(r) == Get(Payload(r), "params")
IdOf(r) == Get(Payload(r), "id")
IsToolsCall(r) == HasPayload(r) /\ MethodOf(r) = JStr("tools/call")
\* a tools/call whose params is an object carrying name and arguments
IsNamedCall(r) == IsToolsCall(r) /\ ParamsOf(r).t = "obj"
NameOf(r) == Get(ParamsOf(r), "name")
ArgsOf(r) == IF "arguments" \in DOMAIN ParamsOf(r).v THEN ParamsOf(r).v["arguments"] ELSE EmptyObj
Answered(r) == r.pc = "ResponseSent" /\ Len(r.sent) = 1
Response(r) == r.sent[1]
ErrorOf(resp) == Get(resp.body, "error")
HasError(resp, status, code) == resp.status = status /\ Get(ErrorOf(resp), "code") = JNum(code)
MessageOf(resp) == Get(ErrorOf(resp), "message")
IsExecutionError(r) == Answered(r) /\ HasError(Response(r), 500, -32000)
IsRegisteredName(name) == name.t = "str" /\ name.v \in DOMAIN registeredToolHandlers

(***************************************************************************)
(* Claims                                                                  *)
(***************************************************************************)
\* C1: a tools/call that names a registered tool and whose arguments lack a
\* field the tool's discovery schema lists as required is answered with an
\* execution error (500, -32000) and issues no upstream call.
C1_ValidationPrecedesInvocation ==
  \A c \in Conn :
    LET r == conns[c] IN
    ( /\ IsNamedCall(r)
      /\ NameOf(r).t = "str"
      /\ NameOf(r).v \in DOMAIN registeredToolSchemas
      /\ ArgsOf(r).t = "obj"
      /\ \E k \in registeredToolSchemas[NameOf(r).v].inputSchema.required :
           k \notin DOMAIN ArgsOf(r).v )
    => r.posts = 0 /\ IsExecutionError(r)

\* C2: in a tools/call the name is resolved first, the arguments are
\* validated next and the handler runs last: a handler runs (and an upstream
\* call is made) only for a registered name whose arguments pass its argument
\* schema, and a name that is not registered is answered with -32601 without
\* its arguments being validated.
C2_ResolveValidateInvoke ==
  \A c \in Conn :
    LET r == conns[c] IN
    IsNamedCall(r) =>
      /\ (InSeq("invoke", r.steps) \/ r.posts > 0) =>
           /\ IsRegisteredName(NameOf(r))
           /\ ZodParse(registeredToolHandlers[NameOf(r).v].schema.inputSchema, ArgsOf(r)).ok
      /\ ~IsRegisteredName(NameOf(r)) =>
           /\ Answered(r)
           /\ Get(ErrorOf(Response(r)), "code") = JNum(-32601)
           /\ ~InSeq("validate", r.steps)

\* C3: a tools/call whose params.name is a string that was never registered
\* is answered with HTTP 404 and code -32601, the message carries the name,
\* no handler runs and no upstream call is made.
C3_UnknownToolNotFound ==
  \A c \in Conn :
    LET r == conns[c] IN
    (IsNamedCall(r) /\ NameOf(r).t = "str" /\ NameOf(r).v \notin DOMAIN registeredToolHandlers)
    => /\ Answered(r)
       /\ HasError(Response(r), 404, -32601)
       /\ MessageOf(Response(r)) = JStr("Unknown tool: " \o NameOf(r).v)
       /\ ~InSeq("invoke", r.steps)
       /\ r.posts = 0

\* C4: a request whose method is none of initialize, tools/list and
\* tools/call (a missing method included) is answered with HTTP 200 and a
\* JSON-RPC error of code -32601.
C4_UnknownMethodNonFatal ==
  \A c \in Conn :
    LET r == conns[c] IN
    (HasPayload(r) /\ MethodOf(r) \notin {JStr("initialize"), JStr("tools/list"), JStr("tools/call")})
    => Answered(r) /\ HasError(Response(r), 200, -32601)

\* C5: whatever the body of a POST /mcp request, no exception escapes the
\* handler and the request is not left without a response: the handler ends
\* with exactly one response sent, and an error response carries a message.
C5_AlwaysOneResponse ==
  \A c \in Conn :
    LET r == conns[c] IN
    IsPost(r) =>
    /\ r.pc \notin {"Escaped", "NoResponse"}
    /\ Len(r.sent) <= 1
    /\ r.pc = "ResponseSent" =>
         /\ Len(r.sent) = 1
         /\ "error" \in DOMAIN Response(r).body.v => MessageOf(Response(r)).t = "str"

\* C6: an empty body is answered with code -32600 and a body that is not
\* JSON with code -32700, both with HTTP 400 and id null, without reaching
\* method routing and without an upstream call.
C6_EnvelopeErrors ==
  \A c \in Conn :
    LET r == conns[c] IN
    (r.pc # "Idle" /\ r.request.kind \in {"empty", "malformed"})
    => /\ Answered(r)
       /\ HasError(Response(r), 400, IF r.request.kind = "empty" THEN -32600 ELSE -32700)
       /\ "id" \in DOMAIN Response(r).body.v
       /\ Response(r).body.v["id"] = JNull
       /\ ~InSeq("route", r.steps)
       /\ r.posts = 0

\* C6 witness: a body that is not JSON has been answered.
C6_Witness ==
  \E c \in Conn : conns[c].request.kind = "malformed" /\ Answered(conns[c])

\* C7: a tools/call whose params is absent, null or not a structured value
\* is answered with code -32602 before any lookup, validation or invocation.
C7_MissingParams ==
  \A c \in Conn :
    LET r == conns[c] IN
    (IsToolsCall(r) /\ ParamsOf(r).t \notin {"obj", "arr"})
    => /\ Answered(r)
       /\ Get(ErrorOf(Response(r)), "code") = JNum(-32602)
       /\ "result" \notin DOMAIN Response(r).body.v
       /\ ~InSeq("resolve", r.steps) /\ ~InSeq("validate", r.steps) /\ ~InSeq("invoke", r.steps)
       /\ r.posts = 0

\* C7 witness: a tools/call whose params is the number 5 has been answered.
C7_Witness ==
  \E c \in Conn : IsToolsCall(conns[c]) /\ ParamsOf(conns[c]) = JNum(5) /\ Answered(conns[c])

\* How the upstream call of a request failed, and the text of that failure.
TimedOut(r) == \E i \in DOMAIN r.events : r.events[i] = Event("timer", "AwaitFetch")
HttpFailed(r) == \E i \in DOMAIN r.events : r.events[i].kind = "headers" /\ ~r.events[i].detail.ok
RpcErrorOf(e) == Get(e.detail.value, "error")
RpcFailed(r) ==
  \E i \in DOMAIN r.events :
    /\ r.events[i].kind = "body"
    /\ r.events[i].detail.kind = "json"
    /\ r.events[i].detail.value.t = "obj"
    /\ RpcErrorOf(r.events[i]).t = "obj"
FailureTexts(r) ==
  {"Upstream request timed out" : i \in {j \in DOMAIN r.events : r.events[j] = Event("timer", "AwaitFetch")}}
  \cup {"Upstream HTTP " \o ToString(r.events[i].detail.status) \o " " \o r.events[i].detail.statusText :
          i \in {j \in DOMAIN r.events : r.events[j].kind = "headers" /\ ~r.events[j].detail.ok}}
  \cup {"Geth error: " \o Get(RpcErrorOf(r.events[i]), "message").v :
          i \in {j \in DOMAIN r.events : /\ r.events[j].kind = "body"
                                         /\ r.events[j].detail.kind = "json"
                                         /\ r.events[j].detail.value.t = "obj"
                                         /\ RpcErrorOf(r.events[j]).t = "obj"}}

\* C8: when the upstream call of a tools/call fails (timeout, unsuccessful
\* HTTP status, error field in the upstream body), the request is answered
\* with exactly one error of code -32000 and HTTP 500 whose message is the
\* text of that failure (the upstream's message included); the response
\* keeps the request's id and has no result field.
C8_UpstreamFailureSurfaced ==
  \A c \in Conn :
    LET r == conns[c] IN
    (IsToolsCall(r) /\ (TimedOut(r) \/ HttpFailed(r) \/ RpcFailed(r)))
    => /\ IsExecutionError(r)
       /\ MessageOf(Response(r)).t = "str"
       /\ MessageOf(Response(r)).v \in FailureTexts(r)
       /\ Get(Response(r).body, "id") = IdOf(r)
       /\ "result" \notin DOMAIN Response(r).body.v

\* C8 witness: an upstream body with an error field has been answered.
C8_Witness ==
  \E c \in Conn : IsToolsCall(conns[c]) /\ RpcFailed(conns[c]) /\ Answered(conns[c])

\* C9: a tool invocation that waits for the upstream is eventually answered
\* (by the upstream's reply or by the timeout error) for as long as the
\* process runs.
C9_TimeoutIsolation ==
  \A c \in Conn :
    (conns[c].pc \in {"AwaitFetch", "AwaitBody"})
      ~> (conns[c].pc \notin {"AwaitFetch", "AwaitBody"} \/ ~alive)

\* The tool of a call is gated off: a raw-transaction tool while
\* ALLOW_SEND_RAW_TX is unset or empty.
GatedOff(r) ==
  /\ NameOf(r).v \in {"eth_sendRawTransaction", "sendRawTransaction"}
  /\ allowSendRawTx.t = "undefined" \/ allowSendRawTx = JStr("")

\* C10: a request issues at most one upstream POST, also after the call
\* failed; a tools/call issues exactly one when its name is registered, its
\* arguments validate and its tool is not gated off, and none when the
\* arguments do not validate.
C10_OneUpstreamCall ==
  \A c \in Conn :
    LET r == conns[c] IN
    /\ r.posts <= 1
    /\ (IsNamedCall(r) /\ IsRegisteredName(NameOf(r))) =>
         LET valid == ZodParse(registeredToolHandlers[NameOf(r).v].schema.inputSchema, ArgsOf(r)).ok
         IN /\ (valid /\ ~GatedOff(r)) => r.posts = 1
            /\ ~valid => r.posts = 0

\* C10 witness: a request whose single upstream call failed has been answered.
C10_Witness ==
  \E c \in Conn :
    /\ Answered(conns[c])
    /\ conns[c].posts = 1
    /\ HttpFailed(conns[c]) \/ TimedOut(conns[c])

\* C11: while ALLOW_SEND_RAW_TX is not enabled (here: not set at all), no
\* tools/call request to any registered tool, the ethCallRaw passthrough
\* included, makes the proxy send an upstream request whose method is
\* eth_sendRawTransaction.
C11_SendDisabledByDefault ==
  \A c \in Conn :
    LET r == conns[c] IN
    (allowSendRawTx.t = "undefined" /\ IsToolsCall(r) /\ r.posts > 0)
    => r.query.method # JStr("eth_sendRawTransaction")

\* The raw-transaction calls: a tools/call of eth_sendRawTransaction or of
\* its alias whose arguments carry a string rawTx.
IsSendRawCall(r) ==
  /\ IsNamedCall(r)
  /\ NameOf(r) \in {JStr("eth_sendRawTransaction"), JStr("sendRawTransaction")}
  /\ Get(ArgsOf(r), "rawTx").t = "str"
\* The decoded text of the first content block of a tool result.
TextOf(resp) == Get(Get(Get(resp.body, "result"), "content").v[1], "text")
\* The response is a success envelope whose payload is the disabled notice:
\* an object with an error text and no transaction hash.
IsSkippedNotice(resp) ==
  /\ resp.status = 200
  /\ "result" \in DOMAIN resp.body.v
  /\ "error" \notin DOMAIN resp.body.v
  /\ TextOf(resp).t = "text"
  /\ Get(TextOf(resp).v, "error").t = "str"
  /\ "txHash" \notin DOMAIN TextOf(resp).v.v

C13_OnlyOneEnables ==
  \A c \in Conn :
    LET r == conns[c] IN
    ( /\ allowSendRawTx \in {Undefined, JStr("0")}
      /\ IsSendRawCall(r)
      /\ NameOf(r) = JStr("eth_sendRawTransaction") )
    => /\ r.posts = 0
       /\ Answered(r)
       /\ IsSkippedNotice(Response(r))

\* The prefixes a directly registered name may start with, and the alias
\* pairs <<alias, target>> of the catalog.
CanonicalPrefixes == {"eth_", "admin_", "debug_", "txpool_"}
HasCanonicalPrefix(name) ==
  \E p \in CanonicalPrefixes : Len(name) >= Len(p) /\ SubSeq(name, 1, Len(p)) = p
AliasPairs ==
  { <<"getBlockNumber", "eth_getBlockNumber">>, <<"getBalance", "eth_getBalance">>,
    <<"getBlockByNumber", "eth_getBlockByNumber">>,
    <<"getTransactionByHash", "eth_getTransactionByHash">>,
    <<"call", "eth_call">>, <<"estimateGas", "eth_estimateGas">>,
    <<"sendRawTransaction", "eth_sendRawTransaction">>, <<"chainId", "eth_chainId">>,
    <<"gasPrice", "eth_gasPrice">>, <<"isSyncing", "eth_isSyncing">> }
\* An answered tools/list request, and the names its response lists.
IsListAnswered(r) == HasPayload(r) /\ MethodOf(r) = JStr("tools/list") /\ Answered(r)
ListedTools(resp) == Get(Get(resp.body, "result"), "tools").v
ListedNames(resp) == {ListedTools(resp)[i].v["name"].v : i \in DOMAIN ListedTools(resp)}

\* C14: registering a name that starts with none of eth_, admin_, debug_,
\* txpool_ neither throws (no registration of a new name does) nor
\* registers: whatever registerTool calls were made, tools/list shows such a
\* name only as an alias of a listed tool.
C14_PrefixPolicy ==
  /\ (\A i, j \in DOMAIN registrations :
        registrations[i].name = registrations[j].name => i = j) => alive
  /\ \A c \in Conn :
       IsListAnswered(conns[c]) =>
         \A n \in ListedNames(Response(conns[c])) :
           \/ HasCanonicalPrefix(n)
           \/ \E p \in AliasPairs : p[1] = n /\ p[2] \in ListedNames(Response(conns[c]))

\* The other name of an alias pair, and a request with its tool name
\* replaced by that other name.
IsPairName(name) == \E p \in AliasPairs : name \in {p[1], p[2]}
Twin(name) ==
  LET p == CHOOSE q \in AliasPairs : name \in {q[1], q[2]}
  IN IF p[1] = name THEN p[2] ELSE p[1]
TwinBody(r) ==
  Body("json", Obj(<< <<"jsonrpc", Get(Payload(r), "jsonrpc")>>, <<"id", IdOf(r)>>,
                      <<"method", MethodOf(r)>>,
                      <<"params", Obj(<< <<"name", JStr(Twin(NameOf(r).v))>>,
                                         <<"arguments", ArgsOf(r)>> >>)>> >>))
\* What the upstream did to r, done to the request x.
Applied(x, e) ==
  CASE e.kind = "headers" -> FetchResolved(x, e.detail)
    [] e.kind = "rejected" -> FetchRejected(x, e.detail)
    [] e.kind = "body" -> BodyRead(x, e.detail)
    [] e.kind = "timer" -> TimerFired(x)
RECURSIVE Replay(_, _)
Replay(x, events) ==
  IF events = <<>> THEN x ELSE Replay(Applied(x, Head(events)), Tail(events))
\* The request of r made under the other name of the pair, given the same
\* upstream behaviour.
TwinRun(r) ==
  Replay(Started(TwinBody(r),
                 mcpHandler(TwinBody(r), registeredToolNames, registeredToolSchemas,
                            registeredToolHandlers, allowSendRawTx, FALSE)),
         r.events)

LastIndex(name) ==
  CHOOSE i \in DOMAIN registrations :
    /\ registrations[i].name = name
    /\ \A j \in DOMAIN registrations : registrations[j].name = name => j <= i
LastDef(name) == registrations[LastIndex(name)]

\* C16: registering a name again raises no error and the last registration
\* wins: the process keeps running, and every registered name is held with
\* the validator and handler (used by tools/call) and the description and
\* discovery schema (shown by tools/list) of the last call made under it.
C16_LastRegistrationWins ==
  /\ alive
  /\ \A i \in DOMAIN registrations :
       LET name == registrations[i].name
           last == LastDef(name)
       IN /\ name \in DOMAIN registeredToolHandlers
          /\ registeredToolHandlers[name].handler = last.handler
          /\ registeredToolHandlers[name].schema.inputSchema = last.zod
          /\ name \in DOMAIN registeredToolSchemas
          /\ registeredToolSchemas[name].inputSchema = last.json
          /\ registeredToolSchemas[name].description = last.description

\* C17: tool names are unique across the registry: whatever registerTool
\* calls were made, a name registered more than once included, the listing
\* read by tools/list and by the health endpoint (registeredToolNames) holds
\* each name at most once.
C17_NamesUnique ==
  \A i, j \in DOMAIN registeredToolNames :
    registeredToolNames[i] = registeredToolNames[j] => i = j

\* The discovery document of the catalog: every registered name with the
\* discovery schema and description it was registered with.
CatalogCapabilities ==
  JObj([n \in ToolNames |->
          Obj(<< <<"inputSchema", SchemaValue(ToolNamed(n).json)>>,
                 <<"description", JStr(ToolNamed(n).description)>> >>)])
DiscoveryDocument ==
  Obj(<< <<"protocolVersion", JStr("2025-06-18")>>,
         <<"serverInfo", Obj(<< <<"name", JStr("geth-mcp-proxy")>>, <<"version", JStr("1.1.0")>> >>)>>,
         <<"capabilities", Obj(<< <<"tools", CatalogCapabilities>>,
                                  <<"roots", Obj(<< <<"listChanged", JBool(FALSE)>> >>)>> >>)>> >>)
IsInitialize(r) == HasPayload(r) /\ MethodOf(r) = JStr("initialize")

\* C18: an initialize request is answered with HTTP 200 and a result that is
\* the fixed discovery document (protocolVersion, serverInfo, capabilities
\* with every registered name's discovery schema and description, and
\* roots.listChanged false), whatever its params and whatever requests came
\* before; it makes no upstream call.
C18_Initialize ==
  \A c \in Conn :
    LET r == conns[c] IN
    IsInitialize(r)
    => /\ Answered(r)
       /\ Response(r).status = 200
       /\ Response(r).body =
            Wire(Obj(<< <<"jsonrpc", JStr("2.0")>>, <<"id", IdOf(r)>>,
                        <<"result", DiscoveryDocument>> >>))
       /\ r.posts = 0

\* C18 witness: an initialize request with params has been answered while
\* a transport attached by an earlier unrecognized request is still held.
C18_Witness ==
  \E c \in Conn :
    /\ IsInitialize(conns[c])
    /\ ParamsOf(conns[c]).t # "undefined"
    /\ Answered(conns[c])
    /\ sdkConnected

\* The listing of the registerTool calls made: one entry per call, in the
\* order of the calls, with the description and discovery schema of its call.
RegisteredListing ==
  JArr([i \in DOMAIN registrations |->
          Obj(<< <<"name", JStr(registrations[i].name)>>,
                 <<"description", JStr(registrations[i].description)>>,
                 <<"inputSchema", SchemaValue(registrations[i].json)>> >>)])
IsToolsList(r) == HasPayload(r) /\ MethodOf(r) = JStr("tools/list")

\* C19: a tools/list request is answered with HTTP 200 and a result whose
\* tools are one entry {name, description, inputSchema} per registered tool,
\* in registration order, each with the description and discovery schema
\* registered under its name (no entry when nothing is registered); it
\* makes no upstream call.
C19_ToolsList ==
  \A c \in Conn :
    LET r == conns[c] IN
    IsToolsList(r)
    => /\ Answered(r)
       /\ Response(r).status = 200
       /\ Response(r).body =
            Wire(Obj(<< <<"jsonrpc", JStr("2.0")>>, <<"id", IdOf(r)>>,
                        <<"result", Obj(<< <<"tools", RegisteredListing>> >>)>> >>))
       /\ r.posts = 0

\* C19 witness: tools/list has been answered by a server that registered
\* three tools.
C19_Witness ==
  \E c \in Conn : IsListAnswered(conns[c]) /\ Len(registrations) = 3

\* C20: the registry is read-only after startup: once the server listens,
\* no step (initialize, tools/list, a tools/call that succeeds or fails, an
\* unknown method, health, /blockNumber, or anything the upstream does)
\* adds, removes, reorders or changes a registered name, schema or handler.
C20_RegistryReadOnly ==
  [][listening => /\ registeredToolNames' = registeredToolNames
                  /\ registeredToolSchemas' = registeredToolSchemas
                  /\ registeredToolHandlers' = registeredToolHandlers]_vars

\* C20 witness: a server with registered tools has answered a tools/call
\* with an execution error after its upstream call failed.
C20_Witness ==
  \E c \in Conn :
    /\ listening
    /\ Len(registeredToolNames) > 0
    /\ IsToolsCall(conns[c])
    /\ conns[c].posts = 1
    /\ IsExecutionError(conns[c])

\* The request of r sent to a server that has handled no request before,
\* given the same upstream behaviour.
FreshRun(r) ==
  Replay(Started(r.request,
                 mcpHandler(r.request, registeredToolNames, registeredToolSchemas,
                            registeredToolHandlers, allowSendRawTx, FALSE)),
         r.events)

\* C21: no state persists across requests: a POST /mcp request handled
\* after any other requests (an unrecognized method included) is answered as
\* the same request is answered by a server that has handled none, given the
\* same configuration and the same upstream replies.
C21_NoCrossRequestState ==
  \A c \in Conn :
    LET r == conns[c] IN
    (r.pc # "Idle" /\ IsPost(r))
    => /\ FreshRun(r).pc = r.pc
       /\ FreshRun(r).sent = r.sent

\* The upstream answered the call of r with a result (a JSON object without
\* an error field).
GoodBody(e) ==
  /\ e.kind = "body"
  /\ e.detail.kind = "json"
  /\ e.detail.value.t = "obj"
  /\ ~Truthy(Get(e.detail.value, "error"))
GotResult(r) == \E i \in DOMAIN r.events : GoodBody(r.events[i])
\* A request that waits for its upstream call.
Suspended(r) == IsToolsCall(r) /\ r.pc \in {"AwaitFetch", "AwaitBody"}
ListBody == JsonBody(Envelope(JNum(9), JStr("tools/list"), Undefined))

\* C22: concurrent requests are independent: while a tools/call waits for
\* its upstream reply the running server accepts and answers a request on
\* any idle connection, and every answered tools/call that reached the
\* upstream carries its own request's id and the outcome of its own upstream
\* call (a result exactly when its own call returned one, an execution error
\* otherwise), whatever the other connections did meanwhile.
C22_ConcurrentIndependence ==
  /\ \A c, d \in Conn :
       (alive /\ Suspended(conns[c]) /\ conns[d].pc = "Idle")
       => /\ listening
          /\ Answered(Started(ListBody,
                              mcpHandler(ListBody, registeredToolNames,
                                         registeredToolSchemas, registeredToolHandlers,
                                         allowSendRawTx, FALSE)))
  /\ \A c \in Conn :
       LET r == conns[c] IN
       (IsToolsCall(r) /\ r.posts > 0 /\ r.pc = "ResponseSent")
       => /\ Len(r.sent) = 1
          /\ Get(Response(r).body, "id") = IdOf(r)
          /\ IF GotResult(r)
             THEN Response(r).status = 200 /\ "result" \in DOMAIN Response(r).body.v
             ELSE IsExecutionError(r)

\* C22 witness: one tools/call still waits for its upstream body while the
\* tools/call of another connection has been answered with its own failure.
C22_Witness ==
  \E c, d \in Conn :
    /\ c # d
    /\ Suspended(conns[c])
    /\ conns[c].pc = "AwaitBody"
    /\ IsToolsCall(conns[d])
    /\ conns[d].posts = 1
    /\ IsExecutionError(conns[d])

\* --- hex/decimal round trip, computed apart from hexToDecimalMaybe ---
LowerCase ==
  [ch \in DOMAIN HexDigitValue |->
     CASE ch = "A" -> "a" [] ch = "B" -> "b" [] ch = "C" -> "c"
       [] ch = "D" -> "d" [] ch = "E" -> "e" [] ch = "F" -> "f" [] OTHER -> ch]
HexDigits == <<"0", "1", "2", "3", "4", "5", "6", "7", "8", "9", "a", "b", "c", "d", "e", "f">>
\* the value of the hex digits s[3..n] as a machine integer (short inputs only)
RECURSIVE NativeValue(_, _)
NativeValue(s, n) ==
  IF n < 3 THEN 0 ELSE 16 * NativeValue(s, n - 1) + HexDigitValue[SubSeq(s, n, n)]
IsDecimalString(d) ==
  /\ Len(d) >= 1
  /\ \A i \in 1..Len(d) : \E k \in 1..10 : DecimalDigits[k] = SubSeq(d, i, i)
\* the decimal string d[1..n] re-parsed as an arbitrary-precision integer
\* (base-16 digits, least significant first)
RECURSIVE FromDecimal(_, _)
FromDecimal(d, n) ==
  IF n < 1 THEN <<>>
  ELSE TimesPlus(FromDecimal(d, n - 1), 10, HexDigitValue[SubSeq(d, n, n)], 16)
RECURSIVE HexDigitString(_)
HexDigitString(ds) ==
  IF ds = <<>> THEN "" ELSE HexDigitString(Tail(ds)) \o HexDigits[Head(ds) + 1]
ToHex(ds) == "0x" \o (IF ds = <<>> THEN "0" ELSE HexDigitString(ds))
\* the canonical form of a hex quantity: lower case, no leading zeros
RECURSIVE LowerFrom(_, _)
LowerFrom(s, i) ==
  IF i > Len(s) THEN "" ELSE LowerCase[SubSeq(s, i, i)] \o LowerFrom(s, i + 1)
RECURSIVE FirstNonZero(_, _)
FirstNonZero(s, i) ==
  IF i >= Len(s) \/ SubSeq(s, i, i) # "0" THEN i ELSE FirstNonZero(s, i + 1)
Canonical(s) == "0x" \o LowerFrom(s, FirstNonZero(s, 3))
\* values known from outside the model
KnownDecimal ==
  ("0x7fffffff" :> "2147483647") @@ ("0x80000000" :> "2147483648") @@
  ("0xffffffff" :> "4294967295") @@ ("0x100000000" :> "4294967296") @@
  ("0x1fffffffffffff" :> "9007199254740991") @@
  ("0x20000000000001" :> "9007199254740993") @@
  ("0xffffffffffffffff" :> "18446744073709551615") @@
  ("0x10000000000000000" :> "18446744073709551616") @@
  ("0x00010000000000000000" :> "18446744073709551616") @@
  ("0xDE0B6B3A7640000" :> "1000000000000000000") @@
  ("0x0de0b6b3a7640000" :> "1000000000000000000") @@
  ("0xffffffffffffffffffffffffffffffff" :>
     "340282366920938463463374607431768211455")
\* d is what hexToDecimal has to return for h
HexToDecimalOk(h, d) ==
  IF h \in {JStr(x) : x \in ShortHex \cup LongHex}
  THEN /\ d.t = "str"
       /\ IsDecimalString(d.v)
       /\ ToHex(FromDecimal(d.v, Len(d.v))) = Canonical(h.v)
       /\ Len(h.v) <= 9 => d.v = ToString(NativeValue(h.v, Len(h.v)))
       /\ h.v \in DOMAIN KnownDecimal => d.v = KnownDecimal[h.v]
  ELSE d = JNull
\* the upstream result a request was given, and the decimal it answered with
HexGiven(r) ==
  LET i == CHOOSE j \in DOMAIN r.events : GoodBody(r.events[j])
  IN Get(r.events[i].detail.value, "result")
HexAnswered(r) ==
  IF IsPost(r) THEN Get(TextOf(Response(r)).v, "blockNumberDecimal")
  ELSE Get(Response(r).body, "blockNumberDecimal")
HexApplied(r) ==
  /\ r.pc = "ResponseSent"
  /\ GotResult(r)
  /\ \/ r.request.kind = RestBlockNumber
     \/ IsNamedCall(r) /\ NameOf(r) = JStr("getBlockNumber")

\* C23: hexToDecimal is total and pure: whatever the upstream returned as the
\* block number, the request is answered with status 200; for a result
\* matching ^0x[0-9a-fA-F]+$ the decimal field is the base-10 string of the
\* value (equal to the machine value for short inputs, to the known value
\* for 32-, 53-, 64- and 128-bit boundaries), which parsed again and printed
\* in hex is the input's canonical form; for any other result it is null.
C23_HexToDecimalRoundTrip ==
  \A c \in Conn :
    LET r == conns[c] IN
    HexApplied(r)
    => /\ Len(r.sent) = 1
       /\ Response(r).status = 200
       /\ HexToDecimalOk(HexGiven(r), HexAnswered(r))

\* C23 witness: a value beyond 64 bits with leading zeros has been converted.
C23_Witness ==
  \E c \in Conn :
    /\ HexApplied(conns[c])
    /\ HexGiven(conns[c]) = JStr("0x00010000000000000000")
    /\ HexAnswered(conns[c]) = JStr("18446744073709551616")

IsBalanceCall(r) ==
  /\ IsNamedCall(r)
  /\ NameOf(r) \in {JStr("getBalance"), JStr("eth_getBalance")}
  /\ Get(ArgsOf(r), "address").t = "str"
  /\ Get(ArgsOf(r), "block").t \in {"undefined", "str"}
Forwarded(r) == r.posts >= 1
\* the block a balance call names, or the default
BlockOf(r) ==
  IF Get(ArgsOf(r), "block").t = "undefined" THEN JStr("latest") ELSE Get(ArgsOf(r), "block")

\* C24: a tools/call of getBalance or eth_getBalance with a string address
\* forwards upstream method eth_getBalance with params [address, "latest"]
\* when it names no block and [address, block] when it names one; the
\* address is the one of the call.
C24_BalanceForwarding ==
  \A c \in Conn :
    LET r == conns[c] IN
    IsBalanceCall(r)
    => /\ Forwarded(r)
       /\ r.query.method = JStr("eth_getBalance")
       /\ r.query.params = JArr(<<Get(ArgsOf(r), "address"), BlockOf(r)>>)

\* C24 witness: the alias called without a block has forwarded "latest" and
\* has been answered.
C24_Witness ==
  \E c \in Conn :
    /\ IsBalanceCall(conns[c])
    /\ NameOf(conns[c]) = JStr("eth_getBalance")
    /\ ArgsOf(conns[c]) = ArgAddress
    /\ conns[c].query.params = JArr(<<JStr("0xabc"), JStr("latest")>>)
    /\ Answered(conns[c])
    /\ GotResult(conns[c])

IsBlockNumberCall(r) ==
  /\ IsNamedCall(r)
  /\ NameOf(r) = JStr("getBlockNumber")
  /\ ArgsOf(r) = EmptyObj
ContentOf(resp) == Get(Get(resp.body, "result"), "content")

\* C25: a tools/call of getBlockNumber with arguments {} issues exactly one
\* upstream call, eth_blockNumber with params [], and once the upstream has
\* returned a result h the response is a success envelope with the request's
\* id and a single text block encoding blockNumberHex = h and
\* blockNumberDecimal = the decimal string of h (null when h is no hex
\* quantity), and nothing else.
C25_GetBlockNumber ==
  \A c \in Conn :
    LET r == conns[c] IN
    IsBlockNumberCall(r)
    => /\ r.posts = 1
       /\ r.query = [method |-> JStr("eth_blockNumber"), params |-> JArr(<<>>)]
       /\ (GotResult(r) /\ r.pc = "ResponseSent")
          => /\ Len(r.sent) = 1
             /\ Response(r).status = 200
             /\ DOMAIN Response(r).body.v = {"jsonrpc", "id", "result"}
             /\ Get(Response(r).body, "id") = IdOf(r)
             /\ ContentOf(Response(r)).t = "arr"
             /\ Len(ContentOf(Response(r)).v) = 1
             /\ Get(ContentOf(Response(r)).v[1], "type") = JStr("text")
             /\ TextOf(Response(r)).t = "text"
             /\ Get(TextOf(Response(r)).v, "blockNumberHex") = HexGiven(r)
             /\ HexToDecimalOk(HexGiven(r), Get(TextOf(Response(r)).v, "blockNumberDecimal"))
             /\ DOMAIN TextOf(Response(r)).v.v \subseteq {"blockNumberHex", "blockNumberDecimal"}

\* C25 witness: the upstream returned 0x10 and the call was answered with
\* blockNumberHex "0x10" and blockNumberDecimal "16".
C25_Witness ==
  \E c \in Conn :
    /\ IsBlockNumberCall(conns[c])
    /\ Answered(conns[c])
    /\ GotResult(conns[c])
    /\ TextOf(Response(conns[c])).v =
         Obj(<< <<"blockNumberHex", JStr("0x10")>>, <<"blockNumberDecimal", JStr("16")>> >>)

IsParsingError(r) == r.request.kind \in {"empty", "malformed"}
IsCoreMethod(r) ==
  HasPayload(r) /\ MethodOf(r) \in {JStr("initialize"), JStr("tools/list"), JStr("tools/call")}
OneOfResultError(resp) ==
  ("result" \in DOMAIN resp.body.v) # ("error" \in DOMAIN resp.body.v)

\* C26: every response to an initialize, tools/list or tools/call request
\* carries the id of its request and exactly one of result and error, and a
\* response carries id null in place of the request's id only when it is one
\* of the two envelope-parsing errors (empty body, malformed JSON).
C26_ResponseEnvelope ==
  \A c \in Conn :
    LET r == conns[c] IN
    (r.pc # "Idle" /\ IsPost(r))
    => \A i \in DOMAIN r.sent :
         /\ IsCoreMethod(r)
            => /\ Get(r.sent[i].body, "id") = IdOf(r)
               /\ OneOfResultError(r.sent[i])
         /\ (Get(r.sent[i].body, "id") = JNull /\ ~IsParsingError(r))
            => IdOf(r) = JNull

\* The first half of C26 alone, which the code satisfies.
C26_CoreEnvelope ==
  \A c \in Conn :
    LET r == conns[c] IN
    (r.pc # "Idle" /\ IsPost(r) /\ IsCoreMethod(r))
    => \A i \in DOMAIN r.sent :
         /\ Get(r.sent[i].body, "id") = IdOf(r)
         /\ OneOfResultError(r.sent[i])

\* The published discovery schema rejects the argument mapping args: a
\* required property is missing, or a property is present that the schema
\* does not declare while additionalProperties is false.
SchemaRejects(schema, args) ==
  \/ ~(schema.required \subseteq DOMAIN args.v)
  \/ ~schema.additionalProperties /\ ~(DOMAIN args.v \subseteq schema.properties)
IsPublishedCall(r) ==
  /\ IsNamedCall(r)
  /\ NameOf(r).t = "str"
  /\ NameOf(r).v \in DOMAIN registeredToolSchemas
  /\ NameOf(r).v \in DOMAIN registeredToolHandlers
  /\ ArgsOf(r).t = "obj"

\* C27: for every registered tool, an argument mapping that the tool's
\* published discovery schema rejects is rejected by the tool's validator as
\* well: the call is answered with an execution error and nothing is sent
\* upstream.
C27_SchemaValidatorAgree ==
  \A c \in Conn :
    LET r == conns[c] IN
    (IsPublishedCall(r)
       /\ SchemaRejects(registeredToolSchemas[NameOf(r).v].inputSchema, ArgsOf(r)))
    => /\ IsExecutionError(r)
       /\ r.posts = 0

IsExportCall(r) ==
  /\ IsNamedCall(r)
  /\ NameOf(r) = JStr("admin_exportChain")
  /\ Get(ArgsOf(r), "file").t = "str"
  /\ Get(ArgsOf(r), "first").t \in {"undefined", "num"}
  /\ Get(ArgsOf(r), "last").t \in {"undefined", "num"}

\* C28: admin_exportChain forwards the optional block range in its own
\* positions: the upstream params are [file] without a range, [file, first]
\* with first alone and [file, first, last] with both, and when last is
\* given without first the second position does not hold last.
C28_ExportChainPositions ==
  \A c \in Conn :
    LET r == conns[c]
        file == Get(ArgsOf(r), "file")
        first == Get(ArgsOf(r), "first")
        last == Get(ArgsOf(r), "last")
        params == r.query.params.v
    IN IsExportCall(r)
       => /\ Forwarded(r)
          /\ r.query.method = JStr("admin_exportChain")
          /\ params[1] = file
          /\ CASE first.t = "undefined" /\ last.t = "undefined" -> params = <<file>>
               [] first.t # "undefined" /\ last.t = "undefined" -> params = <<file, first>>
               [] first.t # "undefined" /\ last.t # "undefined" -> params = <<file, first, last>>
               [] OTHER -> Len(params) >= 2 => params[2] # last

RegisteredNameSet == {registeredToolNames[i] : i \in DOMAIN registeredToolNames}
IsHealthAnswered(r) == r.request.kind = "GET /mcp" /\ Answered(r)
HealthNames(resp) == Get(resp.body, "tools").v
ListedNameSeq(resp) == [i \in DOMAIN ListedTools(resp) |-> Get(ListedTools(resp)[i], "name")]
CapabilityKeys(resp) == DOMAIN Get(Get(Get(resp.body, "result"), "capabilities"), "tools").v
\* tools/call took the name for a tool: it did not answer "Unknown tool"
Resolved(r) == ~(Answered(r) /\ HasError(Response(r), 404, -32601))
\* GET /mcp, tools/list and initialize show the registered names, each listed
\* name with a description and a discovery schema
ListingViewsAgree(r) ==
  /\ IsHealthAnswered(r)
     => HealthNames(Response(r)) = [i \in DOMAIN registeredToolNames |-> JStr(registeredToolNames[i])]
  /\ IsListAnswered(r)
     => /\ ListedNameSeq(Response(r)) = [i \in DOMAIN registeredToolNames |-> JStr(registeredToolNames[i])]
        /\ \A i \in DOMAIN ListedTools(Response(r)) :
             /\ Get(ListedTools(Response(r))[i], "description").t = "str"
             /\ Get(ListedTools(Response(r))[i], "inputSchema").t = "schema"
  /\ (IsInitialize(r) /\ Answered(r))
     => CapabilityKeys(Response(r)) = RegisteredNameSet

\* C29: the discovery views describe the same set of tools: the names of
\* GET /mcp, the names of tools/list (each with a description and a
\* discovery schema) and the keys of initialize's capabilities.tools are the
\* registered names, and tools/call takes a name for a tool exactly when it
\* is one of them.
C29_DiscoveryViewsAgree ==
  \A c \in Conn :
    LET r == conns[c] IN
    /\ ListingViewsAgree(r)
    /\ (IsNamedCall(r) /\ NameOf(r).t = "str")
       => (Resolved(r) <=> NameOf(r).v \in RegisteredNameSet)

\* The listing views alone, which the code keeps equal.
C29_ListingViews == \A c \in Conn : ListingViewsAgree(conns[c])

NoOpenConnection == \A c \in Conn : conns[c].pc = "Idle"
ExitCodesOk ==
  /\ ~closing => exitCode = NotExited
  /\ (closing /\ ~alive) => exitCode \in {0, 1}
  /\ exitCode = 0 => NoOpenConnection

\* C30: graceful shutdown: after SIGINT or SIGTERM the process eventually
\* exits and never stays running; it exits with code 0 only once the server
\* has closed (no connection is open), and otherwise with code 1 from the
\* forced-exit timer; before a signal shutdown exits nothing.
C30_GracefulShutdown ==
  /\ []ExitCodesOk
  /\ closing ~> ~alive

\* C30 witness: the forced-exit timer has ended the process while a request
\* was still waiting for its upstream call.
C30_Witness ==
  /\ closing
  /\ ~alive
  /\ exitCode = 1
  /\ \E c \in Conn : conns[c].pc = "AwaitFetch"

====
